---- MODULE Spec2Model ----
(***************************************************************************)
(* CDR reconciliation engine (src/src/app/api/process/route.ts, POST).     *)
(*                                                                         *)
(* Fixed-point conventions of the model:                                   *)
(*   - a per-minute rate is an integer number of 0.0001 $ (RateUnit);      *)
(*   - a cost is an integer number of 0.00001 $ (CostUnit = RateUnit/10),  *)
(*     so that increments * (rate / 10) is increments * rate in CostUnits; *)
(*   - a raw numeric duration cell is an integer number of tenths of a     *)
(*     second, so that Math.round has something to round.                  *)
(* An optional value (number | null) is <<>> for null and <<v>> otherwise. *)
(* A string of characters is a sequence of one-character strings.          *)
(***************************************************************************)
EXTENDS Integers, Sequences, FiniteSets, TLC

\* ------------------------------------------------------------------ bounds

\* Most data rows the two parsed files hold together.
MaxRows == 4

\* The billing check: most rows of its table, largest duration (seconds) and
\* largest rate (RateUnits) of a row.
MaxBillRows == 2
MaxBillDuration == 13
MaxBillRate == 1

\* ------------------------------------------------------- program constants

TIME_TOLERANCE_SECONDS == 60
\* 0.0001 $ in CostUnits: the threshold of Math.abs(costDiff) > 0.0001.
CostThreshold == 10
\* 0.0001 $ in RateUnits: the threshold of Math.abs(rateDiff) > 0.0001.
RateThreshold == 1
\* Math.abs(durationDiff) > 1.
DurationThreshold == 1
\* Seconds per billing increment.
IncrementSeconds == 6
\* One cent in CostUnits (Math.round(x * 100) / 100).
CentUnits == 1000
\* Excel serial dates: numbers in (0, 100000), days since 1899-12-30, which
\* is 25569 days before 1970-01-01 (new Date(1899, 11, 30) on a UTC host).
ExcelSerialLimit == 100000
ExcelEpochDays == -25569
SecondsPerDay == 86400
\* input > 10000000000 (milliseconds), in thousands: TLC's integers are 32-bit.
MillisThresholdK == 10000000

\* ----------------------------------------------------------------- helpers

None == <<>>
Some(v) == <<v>>

Abs(x) == IF x < 0 THEN -x ELSE x

Range(s) == {s[i] : i \in DOMAIN s}

BoundedSeq(S, n) == UNION {[1..k -> S] : k \in 0..n}

RECURSIVE SumSeq(_)
SumSeq(s) == IF s = <<>> THEN 0 ELSE Head(s) + SumSeq(Tail(s))

\* Math.round: to the nearest integer, halves towards +infinity (x in tenths).
MathRoundTenths(x) == (x + 5) \div 10

\* Math.ceil(n / d) for d > 0.
MathCeilDiv(n, d) == IF n % d = 0 THEN n \div d ELSE (n \div d) + 1

\* SQLite's integer division: truncation towards zero.
SqlIntDiv(n, d) == IF n >= 0 THEN n \div d ELSE -((-n) \div d)

\* Math.round(x * 100) / 100 of a cost, in cents.
RoundCents(x) == (x + (CentUnits \div 2)) \div CentUnits

\* -------------------------------------------------------------- normalizers

Digits == {"0", "1", "2", "3", "4", "5", "6", "7", "8", "9"}

IsDigit(c) == c \in Digits

StartsWith(s, p) == Len(s) >= Len(p) /\ SubSeq(s, 1, Len(p)) = p

Slice(s, n) == SubSeq(s, n + 1, Len(s))

\* A raw phone / LRN cell is [t |-> "null" | "str", v |-> characters].
\* normalizePhoneNumber without the length test of the first prefix rule.
normalizePhoneNumberAnyLength(input) ==
  IF input.t = "null" THEN <<>>
  ELSE
    LET d0 == SelectSeq(input.v, IsDigit)
        d1 == IF StartsWith(d0, <<"1">>) THEN Slice(d0, 1) ELSE d0
        d2 == IF StartsWith(d1, <<"0", "1">>) /\ Len(d1) = 12 THEN Slice(d1, 2) ELSE d1
        d3 == IF StartsWith(d2, <<"0", "0", "1">>) /\ Len(d2) = 13 THEN Slice(d2, 3) ELSE d2
    IN d3

normalizePhoneNumber(input) ==
  IF input.t = "null" THEN <<>>
  ELSE
    LET d0 == SelectSeq(input.v, IsDigit)
        d1 == IF StartsWith(d0, <<"1">>) /\ Len(d0) = 11 THEN Slice(d0, 1) ELSE d0
        d2 == IF StartsWith(d1, <<"0", "1">>) /\ Len(d1) = 12 THEN Slice(d1, 2) ELSE d1
        d3 == IF StartsWith(d2, <<"0", "0", "1">>) /\ Len(d2) = 13 THEN Slice(d2, 3) ELSE d2
    IN d3

\* normalizeTimestamp taking every number above 10^9 for milliseconds.
normalizeTimestampEarlyMillis(input) ==
  IF input.t \in {"null", "empty"} THEN None
  ELSE IF input.t = "utc" THEN Some(input.v \div 1000)
  ELSE IF input.t = "num"
  THEN IF input.v > 0 /\ input.v < ExcelSerialLimit
       THEN Some((ExcelEpochDays + input.v) * SecondsPerDay)
       ELSE IF input.v > MillisThresholdK * 100 THEN Some(input.v \div 1000)
       ELSE Some(input.v)
  ELSE IF input.v > 0 /\ input.v < ExcelSerialLimit \div 1000
       THEN Some((ExcelEpochDays + input.v * 1000) * SecondsPerDay)
  ELSE IF input.v > MillisThresholdK \div 10 THEN Some(input.v)
  ELSE Some(input.v * 1000)

\* A raw timestamp cell is [t |-> "null" | "empty" | "num" | "num_k" | "utc",
\* v |-> n]: "num" is the number n, "num_k" the number 1000 * n (a number too
\* big for TLC's 32-bit integers, such as an epoch in milliseconds), "utc" a
\* date string with a time zone that new Date() parses to the instant n ms
\* after the epoch.
normalizeTimestamp(input) ==
  IF input.t \in {"null", "empty"} THEN None
  ELSE IF input.t = "utc" THEN Some(input.v \div 1000)
  ELSE IF input.t = "num"
  THEN IF input.v > 0 /\ input.v < ExcelSerialLimit
       THEN Some((ExcelEpochDays + input.v) * SecondsPerDay)
       ELSE Some(input.v)
  ELSE IF input.v > 0 /\ input.v < ExcelSerialLimit \div 1000
       THEN Some((ExcelEpochDays + input.v * 1000) * SecondsPerDay)
  ELSE IF input.v > MillisThresholdK THEN Some(input.v)
  ELSE Some(input.v * 1000)

\* A raw duration cell is [t |-> "null" | "empty" | "num" | "str" | "junk",
\* v |-> tenths of a second]; "junk" is text parseFloat turns into NaN.
normalizeDuration(input) ==
  IF input.t \in {"null", "empty"} THEN 0
  ELSE IF input.t = "junk" THEN 0
  ELSE MathRoundTenths(input.v)

\* A raw rate cell is [t |-> ..., v |-> RateUnits], tags as for a duration.
normalizeRate(input) ==
  IF input.t \in {"null", "empty"} THEN 0
  ELSE IF input.t = "junk" THEN 0
  ELSE input.v

\* ------------------------------------------------------------------ billing

calculateBillingIncrementsFloor(durationSeconds) ==
  IF durationSeconds <= 0 THEN 0
  ELSE (durationSeconds \div IncrementSeconds) + 1

calculateBillingIncrements(durationSeconds) ==
  IF durationSeconds <= 0 THEN 0
  ELSE MathCeilDiv(durationSeconds, IncrementSeconds)

\* increments * (ratePerMinute / 10), in CostUnits.
calculateCallCost(durationSeconds, ratePerMinute) ==
  calculateBillingIncrements(durationSeconds) * ratePerMinute

\* SqlCostExpr without the + 5 that turns the truncation into a ceiling.
SqlCostExprTruncating(billed_duration, rate) ==
  IF billed_duration > 0
  THEN SqlIntDiv(billed_duration, 6) * rate
  ELSE 0

\* CASE WHEN billed_duration > 0
\*   THEN (((billed_duration + 5) / 6) * rate / 10.0) ELSE 0 END, in CostUnits.
SqlCostExpr(billed_duration, rate) ==
  IF billed_duration > 0
  THEN SqlIntDiv(billed_duration + 5, 6) * rate
  ELSE 0

\* SUM(...) over a table: NULL (None) over no rows.
SqlSum(vals) == IF vals = <<>> THEN None ELSE Some(SumSeq(vals))

\* x || 0 on the result of a SUM.
OrZero(x) == IF x = None \/ x = Some(0) THEN 0 ELSE x[1]

\* ------------------------------------------------------------------- state

VARIABLES
  pc,               \* where POST stands
  dataA, dataB,     \* parseFile's data rows of file A and file B (raw cells)
  mappingA, mappingB, \* the column mappings: [rate |-> is a rate column mapped]
  records_a, records_b, \* the staging tables
  pending,          \* candidate rows the matchQuery iterator has yet to yield
  usedAIds, usedBIds,
  matches,          \* accepted candidates, in order of acceptance
  unmatchedCountA, unmatchedCountB,
  discrepancies,
  zeroDurationInA, zeroDurationInB, billedMissingInA, billedMissingInB,
  lrnMismatchCount,
  yourTotalBilled, providerTotalBilled,
  summary,
  response,         \* the JSON body POST returns
  bill,             \* one evaluation of the billing functions
  norm,             \* one evaluation of the normalizers
  sample,           \* one evaluation of the sampling of a long discrepancy list
  batch,            \* one run of the batch insert loop
  hung,             \* one run of the hung-call detector on one side
  req,              \* one request to POST: validation, scratch files, outcome
  limiter           \* the proxy's rate limiter: the clock and rateLimitMap

matchVars == <<pending, usedAIds, usedBIds, matches>>
countVars == <<unmatchedCountA, unmatchedCountB>>
classifyVars == <<discrepancies, zeroDurationInA, zeroDurationInB,
                  billedMissingInA, billedMissingInB, lrnMismatchCount>>
totalVars == <<yourTotalBilled, providerTotalBilled, summary>>
inputVars == <<dataA, dataB, mappingA, mappingB>>
tableVars == <<records_a, records_b>>
jobVars ==
  <<pc, inputVars, tableVars, matchVars, countVars, classifyVars, totalVars, response>>
unitVars == <<bill, norm, sample, batch, hung, req, limiter>>
vars == <<jobVars, unitVars>>

\* ------------------------------------------------------------ input domains

Str(chars) == [t |-> "str", v |-> chars]
Num(n) == [t |-> "num", v |-> n]
NullCell == [t |-> "null", v |-> 0]
NullText == [t |-> "null", v |-> <<>>]

Caller1 == <<"5", "5", "5", "1", "2", "3", "4", "5", "6", "7">>
Caller2 == <<"5", "5", "5", "1", "2", "3", "4", "5", "6", "8">>
Called1 == <<"5", "5", "5", "9", "8", "7", "6", "5", "4", "3">>
Called2 == <<"5", "5", "5", "9", "8", "7", "6", "5", "4", "4">>
Lrn1 == <<"5", "5", "5", "0", "0", "0", "1">>
Lrn2 == <<"5", "5", "5", "0", "0", "0", "2">>

\* 2023-11-14T22:13:20Z as epoch seconds.
BaseSeize == 1700 * 1000000

RawRow(a, b, seize, dur, rate, lrn) ==
  [a_number |-> a, b_number |-> b, seize_time |-> seize,
   billed_duration |-> dur, rate |-> rate, lrn |-> lrn]

\* A call of 6 s at 0.0150 $/min between Caller1 and Called1, seized at `seize`.
PlainRow(seize) ==
  RawRow(Str(Caller1), Str(Called1), seize, Num(60), Num(150), NullText)

\* Seize times around the tolerance: 60 s apart and 61 s apart.
TimeRows ==
  { PlainRow(Num(BaseSeize)), PlainRow(Num(BaseSeize + 60)),
    PlainRow(Num(BaseSeize + 121)) }

\* A missing seize time beside seize times 60 s and 61 s from 0.
NullTimeRows ==
  { PlainRow(NullCell), PlainRow(Num(-60)), PlainRow(Num(-61)) }

\* Numbers that agree on one side only.
KeyRows ==
  { RawRow(Str(Caller1), Str(Called1), Num(BaseSeize), Num(60), Num(150), NullText),
    RawRow(Str(Caller1), Str(Called2), Num(BaseSeize), Num(60), Num(150), NullText),
    RawRow(Str(Caller2), Str(Called1), Num(BaseSeize), Num(60), Num(150), NullText) }

\* Candidates that tie on the time difference and differ in the duration
\* difference; the same caller written with a country prefix and punctuation.
TieRows ==
  { RawRow(Str(Caller1), Str(Called1), Num(BaseSeize), Num(60), Num(150), NullText),
    RawRow(Str(<<"1">> \o Caller1), Str(Called1), Num(BaseSeize), Num(130), Num(150), NullText),
    RawRow(Str(<<"+", "1", " ">> \o Caller1), Str(Called1), Num(BaseSeize + 60), Num(60),
           Num(150), NullText) }

BillingRow(dur, rate, lrn) ==
  RawRow(Str(Caller1), Str(Called1), Num(BaseSeize), dur, rate, lrn)

\* One call billed with different durations, rates and LRNs.
BillingRows ==
  { BillingRow(Num(600), Num(150), NullText),
    BillingRow(Num(600), Num(152), Str(Lrn1)),
    BillingRow(Num(660), Num(150), Str(Lrn2)) }

\* Differences at the thresholds: 0.0001 $/min, 1 s, 0.0001 $.
ThresholdRows ==
  { BillingRow(Num(600), Num(150), NullText),
    BillingRow(Num(600), Num(151), NullText),
    BillingRow(Num(610), Num(152), NullText) }

\* Durations of zero, below zero (as text), and 6.4 s.
ZeroRows ==
  { BillingRow(Num(0), Num(150), NullText),
    BillingRow(Str(-30), Num(150), NullText),
    BillingRow(Num(64), Num(150), NullText) }

\* LRN cells of letters (no digit) and of digits; 120 s at 0.0200 and 0.0180 $/min.
LrnRows ==
  { BillingRow(Num(1200), Num(200), Str(<<"A", "A", "A">>)),
    BillingRow(Num(1200), Num(180), Str(<<"B", "B", "B">>)),
    BillingRow(Num(1200), Num(180), Str(Lrn2)) }

\* Seize times 50 s apart: the middle call is within tolerance of both others.
GreedyRows ==
  { PlainRow(Num(BaseSeize)), PlainRow(Num(BaseSeize + 50)),
    PlainRow(Num(BaseSeize + 100)) }

RowFamilies ==
  {TimeRows, NullTimeRows, KeyRows, TieRows, BillingRows, ThresholdRows, ZeroRows, LrnRows,
   GreedyRows}

\* The rate column is optional in a mapping.
Mapped == [rate |-> TRUE]
Unmapped == [rate |-> FALSE]

\* ---------------------------------------------------------------- the job

JobIdle ==
  /\ pc = "idle"
  /\ dataA = <<>> /\ dataB = <<>>
  /\ mappingA = Mapped /\ mappingB = Mapped
  /\ records_a = <<>> /\ records_b = <<>>
  /\ pending = {} /\ usedAIds = {} /\ usedBIds = {} /\ matches = <<>>
  /\ unmatchedCountA = 0 /\ unmatchedCountB = 0
  /\ discrepancies = <<>>
  /\ zeroDurationInA = 0 /\ zeroDurationInB = 0
  /\ billedMissingInA = 0 /\ billedMissingInB = 0
  /\ lrnMismatchCount = 0
  /\ yourTotalBilled = 0 /\ providerTotalBilled = 0
  /\ summary = <<>>
  /\ response = <<>>

BillIdle == bill = [pc |-> "idle"]
NormIdle == norm = [pc |-> "idle"]
SampleIdle == sample = [pc |-> "idle"]
BatchIdle == batch = [pc |-> "idle"]
HungIdle == hung = [pc |-> "idle"]
ReqIdle == req = [pc |-> "idle"]
LimiterIdle == limiter = [pc |-> "idle"]

\* The state once both files are parsed (route.ts line 354).
Init ==
  /\ pc = "parsed"
  /\ \E rows \in RowFamilies :
       /\ dataA \in BoundedSeq(rows, MaxRows)
       /\ dataB \in BoundedSeq(rows, MaxRows - Len(dataA))
       /\ mappingA = Mapped
       /\ mappingB \in (IF rows = BillingRows THEN {Mapped, Unmapped} ELSE {Mapped})
  /\ records_a = <<>> /\ records_b = <<>>
  /\ pending = {} /\ usedAIds = {} /\ usedBIds = {} /\ matches = <<>>
  /\ unmatchedCountA = 0 /\ unmatchedCountB = 0
  /\ discrepancies = <<>>
  /\ zeroDurationInA = 0 /\ zeroDurationInB = 0
  /\ billedMissingInA = 0 /\ billedMissingInB = 0
  /\ lrnMismatchCount = 0
  /\ yourTotalBilled = 0 /\ providerTotalBilled = 0
  /\ summary = <<>>
  /\ response = <<>>
  /\ BillIdle /\ NormIdle /\ SampleIdle /\ BatchIdle
  /\ HungIdle /\ ReqIdle /\ LimiterIdle

\* if (!dataA.length || !dataB.length) return 400.
RejectEmpty ==
  /\ pc = "parsed"
  /\ (Len(dataA) = 0 \/ Len(dataB) = 0)
  /\ pc' = "rejected"
  /\ UNCHANGED <<inputVars, tableVars, matchVars, countVars, classifyVars, totalVars, response, unitVars>>

\* insertBatchA / insertBatchB: one canonical row per data row; the table
\* assigns ids 1, 2, ... in insertion order (AUTOINCREMENT).
StageRow(row, mapping, index) ==
  [id |-> index + 1,
   a_number |-> normalizePhoneNumber(row.a_number),
   b_number |-> normalizePhoneNumber(row.b_number),
   seize_time |-> normalizeTimestamp(row.seize_time),
   billed_duration |-> normalizeDuration(row.billed_duration),
   rate |-> IF mapping.rate THEN normalizeRate(row.rate) ELSE 0,
   lrn |-> normalizePhoneNumber(row.lrn),
   raw_index |-> index]

StageTable(data, mapping) ==
  [i \in 1..Len(data) |-> StageRow(data[i], mapping, i - 1)]

COALESCE(x, dflt) == IF x = None THEN dflt ELSE x[1]

TimeDiff(a, b) == Abs(COALESCE(a.seize_time, 0) - COALESCE(b.seize_time, 0))

DurationDiff(a, b) == Abs(a.billed_duration - b.billed_duration)

\* JoinCondition with the tolerance taken as exclusive.
JoinConditionExclusive(a, b) ==
  /\ a.a_number = b.a_number
  /\ a.b_number = b.b_number
  /\ TimeDiff(a, b) < TIME_TOLERANCE_SECONDS

\* The ON clause of the matchQuery.
JoinCondition(a, b) ==
  /\ a.a_number = b.a_number
  /\ a.b_number = b.b_number
  /\ TimeDiff(a, b) <= TIME_TOLERANCE_SECONDS

\* The rows of the INNER JOIN, as <<id_a, id_b>>.
Candidates(ta, tb) ==
  {<<i, j>> \in (DOMAIN ta) \X (DOMAIN tb) : JoinCondition(ta[i], tb[j])}

\* SortsBefore with the time difference left out of the ORDER BY.
SortsBeforeByDurationOnly(p, q) ==
  DurationDiff(records_a[p[1]], records_b[p[2]])
    < DurationDiff(records_a[q[1]], records_b[q[2]])

\* SortsBefore with the duration difference left out of the ORDER BY.
SortsBeforeByTimeOnly(p, q) ==
  TimeDiff(records_a[p[1]], records_b[p[2]])
    < TimeDiff(records_a[q[1]], records_b[q[2]])

\* ORDER BY time difference ASC, duration difference ASC: p sorts before q.
SortsBefore(p, q) ==
  LET tp == TimeDiff(records_a[p[1]], records_b[p[2]])
      tq == TimeDiff(records_a[q[1]], records_b[q[2]])
      dp == DurationDiff(records_a[p[1]], records_b[p[2]])
      dq == DurationDiff(records_a[q[1]], records_b[q[2]])
  IN tp < tq \/ (tp = tq /\ dp < dq)

\* Staging, the indexes and the prepared matchQuery (lines 371-529).
Stage ==
  /\ pc = "parsed"
  /\ Len(dataA) > 0 /\ Len(dataB) > 0
  /\ records_a' = StageTable(dataA, mappingA)
  /\ records_b' = StageTable(dataB, mappingB)
  /\ pending' = Candidates(records_a', records_b')
  /\ pc' = "match"
  /\ UNCHANGED <<inputVars, usedAIds, usedBIds, matches, countVars, classifyVars, totalVars, response, unitVars>>

\* Accepts, forgetting the test of the B side.
AcceptsWithoutB(p) == p[1] \notin usedAIds

\* The greedy acceptance test of the loop body.
Accepts(p) == p[1] \notin usedAIds /\ p[2] \notin usedBIds

\* One iteration of for (const match of matchQuery.iterate()): the iterator
\* yields a candidate no pending candidate sorts before (rows that tie on both
\* sort keys come in an order SQL leaves open).
MatchStep ==
  /\ pc = "match"
  /\ \E p \in pending :
       /\ \A q \in pending : ~SortsBefore(q, p)
       /\ pending' = pending \ {p}
       /\ IF Accepts(p)
          THEN /\ matches' = Append(matches, p)
               /\ usedAIds' = usedAIds \cup {p[1]}
               /\ usedBIds' = usedBIds \cup {p[2]}
          ELSE UNCHANGED <<matches, usedAIds, usedBIds>>
  /\ UNCHANGED <<pc, inputVars, tableVars, countVars, classifyVars, totalVars, response, unitVars>>

\* matched_a_ids filled with the B ids of the matches.
MatchedAIdsOfB == {matches[k][2] : k \in DOMAIN matches}

\* matched_a_ids / matched_b_ids as filled from matches.
MatchedAIds == {matches[k][1] : k \in DOMAIN matches}
MatchedBIds == {matches[k][2] : k \in DOMAIN matches}

\* Unmatched, joining the matched ids on raw_index instead of id.
UnmatchedOnRawIndex(table, matchedIds) ==
  SelectSeq(table, LAMBDA r : r.raw_index \notin matchedIds)

\* FROM records_x LEFT JOIN matched_x_ids m ... WHERE m.id IS NULL, in rowid order.
Unmatched(table, matchedIds) ==
  SelectSeq(table, LAMBDA r : r.id \notin matchedIds)

\* The iterator is exhausted: the matched ids go to the temp tables and the
\* unmatched rows are counted (lines 540-605).
FinishMatching ==
  /\ pc = "match"
  /\ pending = {}
  /\ unmatchedCountA' = Len(Unmatched(records_a, MatchedAIds))
  /\ unmatchedCountB' = Len(Unmatched(records_b, MatchedBIds))
  /\ pc' = "unmatched_a"
  /\ UNCHANGED <<inputVars, tableVars, matchVars, classifyVars, totalVars, response, unitVars>>

\* ------------------------------------------------------------ classification

\* IsZeroDuration, taking every unbilled duration for zero.
IsZeroDurationOrLess(record) == record.billed_duration <= 0

\* const isZeroDuration = record.billed_duration === 0.
IsZeroDuration(record) == record.billed_duration = 0

\* A discrepancy of an unmatched row of file A (lines 647-660).
UnmatchedADiscrepancy(record) ==
  LET yourCost == calculateCallCost(record.billed_duration, record.rate)
      isZeroDuration == IsZeroDuration(record)
  IN [type |-> IF isZeroDuration THEN "zero_duration_in_b" ELSE "missing_in_b",
      a_number |-> record.a_number,
      b_number |-> record.b_number,
      seize_time |-> record.seize_time,
      your_duration |-> Some(record.billed_duration),
      provider_duration |-> None,
      your_rate |-> Some(record.rate),
      provider_rate |-> None,
      your_cost |-> Some(yourCost),
      provider_cost |-> None,
      cost_difference |-> yourCost,
      your_lrn |-> None,
      provider_lrn |-> None,
      source_index |-> Some(record.raw_index),
      source_index_a |-> None,
      source_index_b |-> None]

\* ProviderOnlyCostDifference without the sign.
ProviderOnlyCostDifferenceUnsigned(providerCost) == providerCost

\* cost_difference: -providerCost (they bill a call you do not have).
ProviderOnlyCostDifference(providerCost) == -providerCost

\* A discrepancy of an unmatched row of file B (lines 674-687).
UnmatchedBDiscrepancy(record) ==
  LET providerCost == calculateCallCost(record.billed_duration, record.rate)
      isZeroDuration == IsZeroDuration(record)
  IN [type |-> IF isZeroDuration THEN "zero_duration_in_a" ELSE "missing_in_a",
      a_number |-> record.a_number,
      b_number |-> record.b_number,
      seize_time |-> record.seize_time,
      your_duration |-> None,
      provider_duration |-> Some(record.billed_duration),
      your_rate |-> None,
      provider_rate |-> Some(record.rate),
      your_cost |-> None,
      provider_cost |-> Some(providerCost),
      cost_difference |-> ProviderOnlyCostDifference(providerCost),
      your_lrn |-> None,
      provider_lrn |-> None,
      source_index |-> Some(record.raw_index),
      source_index_a |-> None,
      source_index_b |-> None]

CountWhere(s, P(_)) == Len(SelectSeq(s, P))

MapSeq(s, F(_)) == [i \in DOMAIN s |-> F(s[i])]

\* for (const record of unmatchedAQuery.iterate()) (lines 637-661).
ClassifyUnmatchedA ==
  /\ pc = "unmatched_a"
  /\ LET rows == Unmatched(records_a, MatchedAIds)
     IN /\ zeroDurationInA' =
             zeroDurationInA + CountWhere(rows, IsZeroDuration)
        /\ billedMissingInB' =
             billedMissingInB + CountWhere(rows, LAMBDA r : ~IsZeroDuration(r))
        /\ discrepancies' = discrepancies \o MapSeq(rows, UnmatchedADiscrepancy)
  /\ pc' = "unmatched_b"
  /\ UNCHANGED <<inputVars, tableVars, matchVars, countVars, totalVars, response, unitVars,
                 zeroDurationInB, billedMissingInA, lrnMismatchCount>>

\* for (const record of unmatchedBQuery.iterate()) (lines 664-688).
ClassifyUnmatchedB ==
  /\ pc = "unmatched_b"
  /\ LET rows == Unmatched(records_b, MatchedBIds)
     IN /\ zeroDurationInB' =
             zeroDurationInB + CountWhere(rows, IsZeroDuration)
        /\ billedMissingInA' =
             billedMissingInA + CountWhere(rows, LAMBDA r : ~IsZeroDuration(r))
        /\ discrepancies' = discrepancies \o MapSeq(rows, UnmatchedBDiscrepancy)
  /\ pc' = "compare"
  /\ UNCHANGED <<inputVars, tableVars, matchVars, countVars, totalVars, response, unitVars,
                 zeroDurationInA, billedMissingInB, lrnMismatchCount>>

\* The row the matchQuery selects for a candidate <<id_a, id_b>>.
MatchRow(p) ==
  LET a == records_a[p[1]]
      b == records_b[p[2]]
  IN [id_a |-> a.id, id_b |-> b.id,
      a_number |-> a.a_number, b_number |-> a.b_number,
      seize_a |-> a.seize_time, seize_b |-> b.seize_time,
      duration_a |-> a.billed_duration, duration_b |-> b.billed_duration,
      rate_a |-> a.rate, rate_b |-> b.rate,
      lrn_a |-> a.lrn, lrn_b |-> b.lrn,
      index_a |-> a.raw_index, index_b |-> b.raw_index]

\* match.lrn_a !== match.lrn_b && match.lrn_a && match.lrn_b (a string is
\* truthy when it is not empty).
LrnMismatch(match) ==
  match.lrn_a # match.lrn_b /\ match.lrn_a # <<>> /\ match.lrn_b # <<>>

\* DiscrepancyType with the thresholds taken as inclusive on the "greater"
\* side and exclusive on the other.
DiscrepancyTypeInclusive(match) ==
  LET durationDiff == match.duration_a - match.duration_b
      rateDiff == match.rate_a - match.rate_b
  IN IF Abs(durationDiff) >= DurationThreshold /\ Abs(rateDiff) < RateThreshold
     THEN "duration_mismatch"
     ELSE IF Abs(rateDiff) >= RateThreshold /\ Abs(durationDiff) < DurationThreshold
     THEN "rate_mismatch"
     ELSE "cost_mismatch"

\* DiscrepancyType with a default type that no summary count covers.
DiscrepancyTypeUncounted(match) ==
  LET durationDiff == match.duration_a - match.duration_b
      rateDiff == match.rate_a - match.rate_b
  IN IF Abs(durationDiff) > DurationThreshold /\ Abs(rateDiff) <= RateThreshold
     THEN "duration_mismatch"
     ELSE IF Abs(rateDiff) > RateThreshold /\ Abs(durationDiff) <= DurationThreshold
     THEN "rate_mismatch"
     ELSE "mismatch"

\* The primary cause of a cost difference (lines 724-732).
DiscrepancyType(match) ==
  LET durationDiff == match.duration_a - match.duration_b
      rateDiff == match.rate_a - match.rate_b
  IN IF Abs(durationDiff) > DurationThreshold /\ Abs(rateDiff) <= RateThreshold
     THEN "duration_mismatch"
     ELSE IF Abs(rateDiff) > RateThreshold /\ Abs(durationDiff) <= DurationThreshold
     THEN "rate_mismatch"
     ELSE "cost_mismatch"

MatchedDiscrepancy(match, type, withLrn) ==
  LET yourCost == calculateCallCost(match.duration_a, match.rate_a)
      providerCost == calculateCallCost(match.duration_b, match.rate_b)
  IN [type |-> type,
      a_number |-> match.a_number,
      b_number |-> match.b_number,
      seize_time |-> match.seize_a,
      your_duration |-> Some(match.duration_a),
      provider_duration |-> Some(match.duration_b),
      your_rate |-> Some(match.rate_a),
      provider_rate |-> Some(match.rate_b),
      your_cost |-> Some(yourCost),
      provider_cost |-> Some(providerCost),
      cost_difference |-> yourCost - providerCost,
      your_lrn |-> IF withLrn THEN Some(match.lrn_a) ELSE None,
      provider_lrn |-> IF withLrn THEN Some(match.lrn_b) ELSE None,
      source_index |-> None,
      source_index_a |-> Some(match.index_a),
      source_index_b |-> Some(match.index_b)]

\* ReportsCostDifference without the "not already reported as LRN mismatch".
ReportsCostDifferenceAlways(match) ==
  Abs(calculateCallCost(match.duration_a, match.rate_a)
      - calculateCallCost(match.duration_b, match.rate_b)) > CostThreshold

\* Whether the pair gets a duration / rate / cost discrepancy (line 722).
ReportsCostDifference(match) ==
  LET costDiff == calculateCallCost(match.duration_a, match.rate_a)
                  - calculateCallCost(match.duration_b, match.rate_b)
  IN Abs(costDiff) > CostThreshold /\ ~LrnMismatch(match)

\* The discrepancies one pass of the loop body pushes for a matched pair.
CompareMatch(match) ==
  (IF LrnMismatch(match)
   THEN <<MatchedDiscrepancy(match, "lrn_mismatch", TRUE)>>
   ELSE <<>>)
  \o
  (IF ReportsCostDifference(match)
   THEN <<MatchedDiscrepancy(match, DiscrepancyType(match), FALSE)>>
   ELSE <<>>)

RECURSIVE Flatten(_)
Flatten(ss) == IF ss = <<>> THEN <<>> ELSE Head(ss) \o Flatten(Tail(ss))

\* for (const match of matches) (lines 691-750).
CompareMatched ==
  /\ pc = "compare"
  /\ LET rows == MapSeq(matches, MatchRow)
     IN /\ lrnMismatchCount' = lrnMismatchCount + CountWhere(rows, LrnMismatch)
        /\ discrepancies' = discrepancies \o Flatten(MapSeq(rows, CompareMatch))
  /\ pc' = "totals"
  /\ UNCHANGED <<inputVars, tableVars, matchVars, countVars, totalVars, response, unitVars,
                 zeroDurationInA, zeroDurationInB, billedMissingInA, billedMissingInB>>

\* ------------------------------------------------------------------ summary

\* SELECT SUM(CASE ...) AS total_cost FROM records_x, then total_cost || 0.
SqlTotalCost(table) ==
  OrZero(SqlSum(MapSeq(table, LAMBDA r : SqlCostExpr(r.billed_duration, r.rate))))

OfType(ds, type) == SelectSeq(ds, LAMBDA d : d.type = type)

\* reduce((sum, d) => sum + (d.cost_difference || 0), 0).
Impact(ds) == SumSeq(MapSeq(ds, LAMBDA d : d.cost_difference))

\* The summary object (lines 807-842); money in cents.
Summary(your, provider) ==
  [totalRecordsA |-> Len(dataA),
   totalRecordsB |-> Len(dataB),
   matchedRecords |-> Len(matches),
   yourTotalBilled |-> RoundCents(your),
   providerTotalBilled |-> RoundCents(provider),
   billingDifference |-> RoundCents(your - provider),
   missingInYours |-> unmatchedCountB,
   missingInProvider |-> unmatchedCountA,
   zeroDurationInYours |-> zeroDurationInA,
   zeroDurationInProvider |-> zeroDurationInB,
   billedMissingInYours |-> billedMissingInA,
   billedMissingInProvider |-> billedMissingInB,
   durationMismatches |-> Len(OfType(discrepancies, "duration_mismatch")),
   rateMismatches |-> Len(OfType(discrepancies, "rate_mismatch")),
   costMismatches |-> Len(OfType(discrepancies, "cost_mismatch")),
   lrnMismatches |-> lrnMismatchCount,
   totalDiscrepancies |-> Len(discrepancies),
   monetaryImpact |-> RoundCents(Impact(discrepancies)),
   impactBreakdown |->
     [missingInYours |-> RoundCents(Impact(OfType(discrepancies, "missing_in_a"))),
      missingInProvider |-> RoundCents(Impact(OfType(discrepancies, "missing_in_b"))),
      durationMismatches |-> RoundCents(Impact(OfType(discrepancies, "duration_mismatch"))),
      rateMismatches |-> RoundCents(Impact(OfType(discrepancies, "rate_mismatch"))),
      costMismatches |-> RoundCents(Impact(OfType(discrepancies, "cost_mismatch")))]]

\* The SQL totals and the summary (lines 752-842).
Summarize ==
  /\ pc = "totals"
  /\ yourTotalBilled' = SqlTotalCost(records_a)
  /\ providerTotalBilled' = SqlTotalCost(records_b)
  /\ summary' = Summary(yourTotalBilled', providerTotalBilled')
  /\ pc' = "done"
  /\ UNCHANGED <<inputVars, tableVars, matchVars, countVars, classifyVars, response, unitVars>>

\* ------------------------------------------------- sampling and the response

\* The discrepancy list is handled as a sequence of runs: a run
\* [type, cost_difference, n, at] stands for the first n discrepancies of the
\* at-th stretch of the emitted list, a stretch being consecutive
\* discrepancies of one type and one cost_difference. A list of single
\* discrepancies is the case n = 1.
MAX_TOTAL == 5000
minPerCategory == 100

RECURSIVE RunLength(_)
RunLength(runs) ==
  IF runs = <<>> THEN 0 ELSE Head(runs).n + RunLength(Tail(runs))

\* typeOrder[d.type] || 99.
typeOrder(type) ==
  CASE type = "missing_in_a" -> 1
    [] type = "lrn_mismatch" -> 2
    [] type = "duration_mismatch" -> 3
    [] type = "rate_mismatch" -> 4
    [] type = "cost_mismatch" -> 5
    [] type = "missing_in_b" -> 6
    [] type = "zero_duration_in_a" -> 7
    [] type = "zero_duration_in_b" -> 8
    [] OTHER -> 99

\* The comparator of byType[type].sort(...) is negative for (a, b).
ImpactBefore(a, b) == Abs(b.cost_difference) - Abs(a.cost_difference) < 0

\* DisplayBefore without the type order.
DisplayBeforeIgnoringType(a, b) ==
  Abs(b.cost_difference) - Abs(a.cost_difference) < 0

\* The comparator of sampledDiscrepancies.sort(...) is negative for (a, b).
DisplayBefore(a, b) ==
  IF typeOrder(a.type) # typeOrder(b.type)
  THEN typeOrder(a.type) - typeOrder(b.type) < 0
  ELSE Abs(b.cost_difference) - Abs(a.cost_difference) < 0

Before(cmp, a, b) == IF cmp = "impact" THEN ImpactBefore(a, b) ELSE DisplayBefore(a, b)

\* Array.prototype.sort is stable: x, the last element of the array, goes
\* before the first element the comparator puts it before.
RECURSIVE InsertStable(_, _, _)
InsertStable(cmp, sorted, x) ==
  IF sorted = <<>> THEN <<x>>
  ELSE IF Before(cmp, x, Head(sorted)) THEN <<x>> \o sorted
  ELSE <<Head(sorted)>> \o InsertStable(cmp, Tail(sorted), x)

RECURSIVE SortStable(_, _)
SortStable(cmp, runs) ==
  IF runs = <<>> THEN <<>>
  ELSE InsertStable(cmp, SortStable(cmp, SubSeq(runs, 1, Len(runs) - 1)),
                    runs[Len(runs)])

\* Object.keys(byType): the types in the order of their first discrepancy.
RECURSIVE TypesOf(_)
TypesOf(runs) ==
  IF runs = <<>> THEN <<>>
  ELSE LET front == TypesOf(SubSeq(runs, 1, Len(runs) - 1))
           type == runs[Len(runs)].type
       IN IF type \in Range(front) THEN front ELSE Append(front, type)

\* Category without the sort.
CategoryUnsorted(runs, type) == SelectSeq(runs, LAMBDA r : r.type = type)

\* byType[type], sorted by absolute cost difference.
Category(runs, type) ==
  SortStable("impact", SelectSeq(runs, LAMBDA r : r.type = type))

\* items.slice(0, count).
RECURSIVE SliceRuns(_, _)
SliceRuns(runs, count) ==
  IF runs = <<>> \/ count <= 0 THEN <<>>
  ELSE IF Head(runs).n <= count
  THEN <<Head(runs)>> \o SliceRuns(Tail(runs), count - Head(runs).n)
  ELSE <<[Head(runs) EXCEPT !.n = count]>>

Min(a, b) == IF a <= b THEN a ELSE b
Max(a, b) == IF a >= b THEN a ELSE b

\* RemainingSlots without the slots reserved for the minimum per category.
RemainingSlotsUnreserved(numTypes) == MAX_TOTAL

\* MAX_TOTAL - Math.min(reservedSlots, MAX_TOTAL * 0.5).
RemainingSlots(numTypes) ==
  MAX_TOTAL - Min(numTypes * minPerCategory, MAX_TOTAL \div 2)

\* TakeCount without the minimum per category.
TakeCountProportional(length, totalCount, numTypes) ==
  Min(length, (RemainingSlots(numTypes) * length) \div totalCount)

\* Math.min(length, Math.max(minPerCategory, Math.floor(remainingSlots * proportion))).
TakeCount(length, totalCount, numTypes) ==
  Min(length, Max(minPerCategory, (RemainingSlots(numTypes) * length) \div totalCount))

RECURSIVE TakeFromEach(_, _, _)
TakeFromEach(runs, types, totalCount) ==
  IF types = <<>> THEN <<>>
  ELSE LET items == Category(runs, Head(types))
       IN SliceRuns(items, TakeCount(RunLength(items), totalCount, Len(TypesOf(runs))))
          \o TakeFromEach(runs, Tail(types), totalCount)

\* sampledDiscrepancies before the final sort (lines 851-889).
Sample(runs) ==
  IF RunLength(runs) <= MAX_TOTAL THEN runs
  ELSE TakeFromEach(runs, TypesOf(runs), RunLength(runs))

\* sampledDiscrepancies after the final sort (lines 892-908).
Returned(runs) == SortStable("display", Sample(runs))

\* HasMore with the comparison taken as inclusive.
HasMoreOrEqual(total, returned) == total >= returned

\* hasMore: discrepancies.length > sampledDiscrepancies.length.
HasMore(total, returned) == total > returned

\* The discrepancy list of a job as runs of one.
AsRuns(ds) ==
  [k \in DOMAIN ds |->
     [type |-> ds[k].type, cost_difference |-> ds[k].cost_difference,
      n |-> 1, at |-> k]]

\* return NextResponse.json({ success, summary, discrepancies, hasMore,
\* totalDiscrepancyCount }) after sampling and sorting (lines 849-918).
Respond ==
  /\ pc = "done"
  /\ LET returned == Returned(AsRuns(discrepancies))
     IN response' =
          [success |-> TRUE,
           summary |-> summary,
           discrepancies |-> [k \in DOMAIN returned |-> discrepancies[returned[k].at]],
           hasMore |-> HasMore(Len(discrepancies), RunLength(returned)),
           totalDiscrepancyCount |-> Len(discrepancies)]
  /\ pc' = "responded"
  /\ UNCHANGED <<inputVars, tableVars, matchVars, countVars, classifyVars, totalVars,
                 unitVars>>

\* ----------------------------------------------------- billing on its own

\* Rows of a staging table as far as billing reads them; rates in steps of
\* 0.0250 $/min, one of them negative (normalizeRate lets it through).
BillRows ==
  {[billed_duration |-> d, rate |-> r * 250] :
     d \in (-2)..MaxBillDuration, r \in (-1)..MaxBillRate}

InitBilling ==
  /\ JobIdle /\ NormIdle /\ SampleIdle /\ BatchIdle
  /\ HungIdle /\ ReqIdle /\ LimiterIdle
  /\ \E rows \in BoundedSeq(BillRows, MaxBillRows) :
       bill = [pc |-> "input", rows |-> rows]

\* yourTotalBilled += calculateCallCost(...) over all rows (the totals as
\* application code sums them, route.ts lines 1570-1574).
AppTotalCost(table) ==
  SumSeq(MapSeq(table, LAMBDA r : calculateCallCost(r.billed_duration, r.rate)))

\* The billing functions and the SQL totals applied to one table.
BillCompute ==
  /\ bill.pc = "input"
  /\ bill' =
       [pc |-> "done",
        rows |-> bill.rows,
        increments |-> MapSeq(bill.rows,
                        LAMBDA r : calculateBillingIncrements(r.billed_duration)),
        costs |-> MapSeq(bill.rows,
                        LAMBDA r : calculateCallCost(r.billed_duration, r.rate)),
        sqlCosts |-> MapSeq(bill.rows,
                        LAMBDA r : SqlCostExpr(r.billed_duration, r.rate)),
        sqlTotal |-> SqlTotalCost(bill.rows),
        appTotal |-> AppTotalCost(bill.rows),
        totalBilled |-> RoundCents(SqlTotalCost(bill.rows))]
  /\ UNCHANGED <<jobVars, norm, sample, batch, hung, req, limiter>>

NextBilling == BillCompute

SpecBilling == InitBilling /\ [][NextBilling]_vars

\* ---------------------------------------------- the normalizers on their own

\* Longest run of digits after a country prefix in a phone cell.
MaxPhoneBody == 11

EmptyCell == [t |-> "empty", v |-> 0]
Utc(ms) == [t |-> "utc", v |-> ms]
NumK(n) == [t |-> "num_k", v |-> n]

\* Timestamp cells: absent, spreadsheet serial dates, epoch seconds, epoch
\* milliseconds and date strings, among them instants in the first day of 1970.
TimestampCells ==
  { NullCell, EmptyCell,
    Num(-5), Num(0), Num(20000), Num(25569), Num(45000), Num(100000),
    Num(BaseSeize), NumK(BaseSeize),
    Utc(0), Utc(3600500), Utc(-1500), Utc(BaseSeize) }

PhonePrefixes == { <<>>, <<"1">>, <<"0", "1">>, <<"0", "0", "1">> }

\* n digits that begin with `first`.
PhoneBody(first, n) == [i \in 1..n |-> IF i = 1 THEN first ELSE "5"]

PhoneDigitStrings ==
  { pre \o PhoneBody(first, n) :
      pre \in PhonePrefixes, first \in {"0", "1", "5"}, n \in 9..MaxPhoneBody }

NonDigits == {"-", " ", "+", "x"}

Insert(s, k, c) == SubSeq(s, 1, k) \o <<c>> \o SubSeq(s, k + 1, Len(s))

NoisyPhoneStrings(digits) ==
  {digits} \cup {Insert(digits, k, c) : k \in {0, 1, Len(digits)}, c \in NonDigits}

InitNormalize ==
  /\ JobIdle /\ BillIdle /\ SampleIdle /\ BatchIdle
  /\ HungIdle /\ ReqIdle /\ LimiterIdle
  /\ \/ \E cell \in TimestampCells :
          norm = [pc |-> "input", fn |-> "normalizeTimestamp", input |-> cell]
     \/ \E digits \in PhoneDigitStrings :
          \E chars \in NoisyPhoneStrings(digits) :
            norm = [pc |-> "input", fn |-> "normalizePhoneNumber",
                    input |-> Str(chars), digits |-> digits]
     \/ norm = [pc |-> "input", fn |-> "normalizePhoneNumber",
                input |-> NullText, digits |-> <<>>]

\* The value a normalizer returned, as the cell of a file.
TimestampCell(result) == IF result = None THEN NullCell ELSE Num(result[1])

\* One call of the normalizer.
NormalizeOnce ==
  /\ norm.pc = "input"
  /\ norm' =
       IF norm.fn = "normalizeTimestamp"
       THEN [norm EXCEPT !.pc = "once"] @@ [once |-> normalizeTimestamp(norm.input)]
       ELSE [norm EXCEPT !.pc = "once"]
            @@ [once |-> normalizePhoneNumber(norm.input),
                clean |-> normalizePhoneNumber(Str(norm.digits))]
  /\ UNCHANGED <<jobVars, bill, sample, batch, hung, req, limiter>>

\* The normalizer called on its own result.
NormalizeAgain ==
  /\ norm.pc = "once"
  /\ norm' =
       [norm EXCEPT !.pc = "twice"]
       @@ [twice |-> IF norm.fn = "normalizeTimestamp"
                     THEN normalizeTimestamp(TimestampCell(norm.once))
                     ELSE normalizePhoneNumber(Str(norm.once))]
  /\ UNCHANGED <<jobVars, bill, sample, batch, hung, req, limiter>>

NextNormalize == NormalizeOnce \/ NormalizeAgain

SpecNormalize == InitNormalize /\ [][NextNormalize]_vars

\* ------------------------------------------------ the insert loop on its own

\* Most data rows of the file and largest batch size tried beside BATCH_SIZE.
MaxBatchRows == 5
MaxBatchSize == 3

BATCH_SIZE == 10000

\* insertBatch giving each row its position in the batch as raw_index.
insertBatchLocalIndex(table, rows, mapping, startIndex) ==
  table \o [j \in 1..Len(rows) |->
             [StageRow(rows[j], mapping, j - 1) EXCEPT !.id = Len(table) + j]]

\* insertBatchA / insertBatchB: one transaction that inserts rows[i] with
\* raw_index startIndex + i; the id is the table's AUTOINCREMENT.
insertBatch(table, rows, mapping, startIndex) ==
  table \o [j \in 1..Len(rows) |->
             [StageRow(rows[j], mapping, startIndex + j - 1) EXCEPT !.id = Len(table) + j]]

\* data.slice(i, i + size).
SliceRows(data, i, size) ==
  SubSeq(data, i + 1, IF i + size < Len(data) THEN i + size ELSE Len(data))

InitBatching ==
  /\ JobIdle /\ BillIdle /\ NormIdle /\ SampleIdle
  /\ HungIdle /\ ReqIdle /\ LimiterIdle
  /\ \E data \in BoundedSeq(KeyRows, MaxBatchRows) :
       \E size \in (1..MaxBatchSize) \cup {BATCH_SIZE} :
         batch = [pc |-> "insert", data |-> data, size |-> size, i |-> 0,
                  table |-> <<>>]

\* One pass of for (let i = 0; i < data.length; i += BATCH_SIZE).
InsertNextBatch ==
  /\ batch.pc = "insert"
  /\ batch.i < Len(batch.data)
  /\ batch' = [batch EXCEPT
                 !.table = insertBatch(batch.table,
                                       SliceRows(batch.data, batch.i, batch.size),
                                       Mapped, batch.i),
                 !.i = batch.i + batch.size]
  /\ UNCHANGED <<jobVars, bill, norm, sample, hung, req, limiter>>

\* The loop ends.
InsertDone ==
  /\ batch.pc = "insert"
  /\ ~(batch.i < Len(batch.data))
  /\ batch' = [batch EXCEPT !.pc = "done"]
  /\ UNCHANGED <<jobVars, bill, norm, sample, hung, req, limiter>>

NextBatching == InsertNextBatch \/ InsertDone

SpecBatching == InitBatching /\ [][NextBatching]_vars

\* ------------------------------------ sampling of a long list on its own

\* Most runs of the emitted list.
MaxRuns == 3

\* Lengths of a run: one discrepancy, more than minPerCategory, and a length
\* two of which exceed MAX_TOTAL.
RunSizes == {1, 150, 4000}

Run(type, cost, n) == [type |-> type, cost_difference |-> cost, n |-> n]

\* Costs in CostUnits: what you billed is positive, what the provider billed
\* negative, a zero-duration call costs nothing, a mismatch goes either way.
RunTemplates ==
  {Run("missing_in_b", c, n) : c \in {100, 200}, n \in RunSizes}
  \cup {Run("zero_duration_in_b", 0, n) : n \in RunSizes}
  \cup {Run("missing_in_a", c, n) : c \in {-100, -200}, n \in RunSizes}
  \cup {Run("rate_mismatch", c, n) : c \in {-200, 100, 200}, n \in RunSizes}

\* The loop that emits a type: unmatched A rows, unmatched B rows, matches.
EmitPhase(type) ==
  IF type \in {"missing_in_b", "zero_duration_in_b"} THEN 1
  ELSE IF type \in {"missing_in_a", "zero_duration_in_a"} THEN 2
  ELSE 3

PhaseOrdered(runs) ==
  \A k, l \in DOMAIN runs : k < l => EmitPhase(runs[k].type) <= EmitPhase(runs[l].type)

Numbered(runs) == [k \in DOMAIN runs |-> runs[k] @@ [at |-> k]]

InitSample ==
  /\ JobIdle /\ BillIdle /\ NormIdle /\ BatchIdle
  /\ HungIdle /\ ReqIdle /\ LimiterIdle
  /\ \E runs \in BoundedSeq(RunTemplates, MaxRuns) :
       /\ PhaseOrdered(runs)
       /\ sample = [pc |-> "input", emitted |-> Numbered(runs)]

\* discrepancies.filter(d => d.type === type).length.
RunCount(runs, type) == RunLength(SelectSeq(runs, LAMBDA r : r.type = type))

\* discrepancies.reduce((sum, d) => sum + (d.cost_difference || 0), 0).
RECURSIVE RunImpact(_)
RunImpact(runs) ==
  IF runs = <<>> THEN 0
  ELSE Head(runs).n * Head(runs).cost_difference + RunImpact(Tail(runs))

\* The fields of the summary that are computed from the discrepancy list.
SampleSummarize ==
  /\ sample.pc = "input"
  /\ sample' =
       [sample EXCEPT !.pc = "summarized"]
       @@ [summary |->
             [durationMismatches |-> RunCount(sample.emitted, "duration_mismatch"),
              rateMismatches |-> RunCount(sample.emitted, "rate_mismatch"),
              costMismatches |-> RunCount(sample.emitted, "cost_mismatch"),
              totalDiscrepancies |-> RunLength(sample.emitted),
              monetaryImpact |-> RoundCents(RunImpact(sample.emitted))]]
  /\ UNCHANGED <<jobVars, bill, norm, batch, hung, req, limiter>>

\* Sampling, the final sort and the response.
SampleRespond ==
  /\ sample.pc = "summarized"
  /\ LET returned == Returned(sample.emitted)
     IN sample' =
          [sample EXCEPT !.pc = "done"]
          @@ [discrepancies |-> returned,
              hasMore |-> HasMore(RunLength(sample.emitted), RunLength(returned)),
              totalDiscrepancyCount |-> RunLength(sample.emitted)]
  /\ UNCHANGED <<jobVars, bill, norm, batch, hung, req, limiter>>

NextSample == SampleSummarize \/ SampleRespond

SpecSample == InitSample /\ [][NextSample]_vars

\* ------------------------------------- the hung-call detector on its own
\* Unmatched rows of one side as runs of n rows of one duration (s) and rate.
MaxHungRuns == 3

HungMinDuration == 30
HungMinGroupSize == 3
MaxHungExemplars == 200

\* One row, two rows (below the group size) and more than half the cap.
HungRunSizes == {1, 2, 150}

HungRun(duration, rate, n) == [billed_duration |-> duration, rate |-> rate, n |-> n]

HungTemplates ==
  {HungRun(d, r, n) : d \in {30, 31, 240}, r \in {100, 150}, n \in HungRunSizes}

InitHung ==
  /\ JobIdle /\ BillIdle /\ NormIdle /\ SampleIdle /\ BatchIdle
  /\ ReqIdle /\ LimiterIdle
  /\ \E side \in {"yours", "provider"} :
       \E runs \in BoundedSeq(HungTemplates, MaxHungRuns) :
         hung = [pc |-> "input", side |-> side, unmatched |-> Numbered(runs)]

\* The number of unmatched rows of a duration.
HungGroupSize(runs, duration) ==
  RunLength(SelectSeq(runs, LAMBDA r : r.billed_duration = duration))

\* IsHungGroup taking a duration of exactly 30 s for long.
IsHungGroupInclusive(runs, duration) ==
  /\ duration >= HungMinDuration
  /\ HungGroupSize(runs, duration) >= HungMinGroupSize

\* Groups where duration > 30 s and size >= 3 are hung-call groups.
IsHungGroup(runs, duration) ==
  /\ duration > HungMinDuration
  /\ HungGroupSize(runs, duration) >= HungMinGroupSize

HungGroups(runs) ==
  {d \in {runs[k].billed_duration : k \in DOMAIN runs} : IsHungGroup(runs, d)}

HungRows(runs) == SelectSeq(runs, LAMBDA r : r.billed_duration \in HungGroups(runs))

HungValue(r) == r.rate * r.billed_duration

\* Highest rate x duration first; rows of equal value stay in table order.
RECURSIVE HungInsert(_, _)
HungInsert(sorted, x) ==
  IF sorted = <<>> THEN <<x>>
  ELSE IF HungValue(x) > HungValue(Head(sorted))
  THEN <<x>> \o sorted
  ELSE <<Head(sorted)>> \o HungInsert(Tail(sorted), x)

RECURSIVE HungSort(_)
HungSort(runs) ==
  IF runs = <<>> THEN <<>>
  ELSE HungInsert(HungSort(SubSeq(runs, 1, Len(runs) - 1)), runs[Len(runs)])

HungType(side) == IF side = "yours" THEN "hung_call_yours" ELSE "hung_call_provider"

HungExemplars(runs, side) ==
  LET shown == SliceRuns(HungSort(HungRows(runs)), MaxHungExemplars)
  IN [k \in DOMAIN shown |->
        [type |-> HungType(side),
         billed_duration |-> shown[k].billed_duration,
         rate |-> shown[k].rate,
         n |-> shown[k].n,
         at |-> shown[k].at,
         hung_call_count |-> HungGroupSize(runs, shown[k].billed_duration)]]

HungDetect ==
  /\ hung.pc = "input"
  /\ hung' = [pc |-> "done", side |-> hung.side, unmatched |-> hung.unmatched,
              hungCalls |-> RunLength(HungRows(hung.unmatched)),
              hungCallGroups |-> Cardinality(HungGroups(hung.unmatched)),
              exemplars |-> HungExemplars(hung.unmatched, hung.side)]
  /\ UNCHANGED <<jobVars, bill, norm, sample, batch, req, limiter>>

NextHung == HungDetect

SpecHung == InitHung /\ [][NextHung]_vars

\* ------------------------------------------- the proxy's rate limiter
\* In one run: API requests without an x-forwarded-for header, API requests
\* with one, and advances of the clock.
MaxRequests == 12
MaxForwarded == 1
MaxTicks == 2

RATE_LIMIT_WINDOW == 60000
MAX_REQUESTS_PER_WINDOW == 10

\* Date.now() in ms, counted from the load of the module.
ClockStart == 1000

\* The clock moves on by 2 ms or by just less than a window.
ClockSteps == {2, RATE_LIMIT_WINDOW - 1}

Ip1 == "10.0.0.1"
Ip2 == "10.0.0.2"

\* x-forwarded-for: absent, or a list of two addresses (split at ",").
ForwardedFor == {None, Some(<<Ip1, Ip2>>)}

\* pathname, split at "/": /api/process, /api.
Pathnames == {<<"api", "process">>, <<"api">>}

LimiterKeys == {"unknown", Ip1, Ip2}

\* pathname.startsWith("/api/").
StartsWithApi(pathname) == Len(pathname) >= 2 /\ pathname[1] = "api"

\* getRateLimitKey taking the last address of the list.
getRateLimitKeyLastHop(forwarded) ==
  IF forwarded = None THEN "unknown" ELSE forwarded[1][Len(forwarded[1])]

getRateLimitKey(forwarded) ==
  IF forwarded = None THEN "unknown" ELSE forwarded[1][1]

\* isRateLimited comparing the count before it is incremented.
isRateLimitedBeforeIncrement(map, key, now) ==
  LET record == map[key]
  IN IF record = None \/ now > record[1].resetTime
     THEN [map |-> [map EXCEPT ![key] =
                      Some([count |-> 1, resetTime |-> now + RATE_LIMIT_WINDOW])],
           limited |-> FALSE]
     ELSE [map |-> [map EXCEPT ![key] =
                      Some([record[1] EXCEPT !.count = record[1].count + 1])],
           limited |-> record[1].count > MAX_REQUESTS_PER_WINDOW]

\* isRateLimited: the map after the call and the value returned.
isRateLimited(map, key, now) ==
  LET record == map[key]
  IN IF record = None \/ now > record[1].resetTime
     THEN [map |-> [map EXCEPT ![key] =
                      Some([count |-> 1, resetTime |-> now + RATE_LIMIT_WINDOW])],
           limited |-> FALSE]
     ELSE [map |-> [map EXCEPT ![key] =
                      Some([record[1] EXCEPT !.count = record[1].count + 1])],
           limited |-> record[1].count + 1 > MAX_REQUESTS_PER_WINDOW]

\* The setInterval callback deleting every entry.
cleanupEntriesAll(map, now) == [key \in DOMAIN map |-> None]

\* The setInterval callback: entries with now > resetTime are deleted.
cleanupEntries(map, now) ==
  [key \in DOMAIN map |->
     IF map[key] # None /\ now > map[key][1].resetTime THEN None ELSE map[key]]

\* proxy limiting every path.
proxyEveryPath(map, now, forwarded, pathname) ==
  isRateLimited(map, getRateLimitKey(forwarded), now)

\* proxy: the map after the request and whether it is answered with 429.
proxy(map, now, forwarded, pathname) ==
  IF StartsWithApi(pathname)
  THEN isRateLimited(map, getRateLimitKey(forwarded), now)
  ELSE [map |-> map, limited |-> FALSE]

\* limiter.map is rateLimitMap. limiter.untimed is the rateLimitMap of a
\* second proxy that is sent the same requests at the same times and whose
\* timer never fires; limiter.admitted lists, per key, the time of each API
\* request let through and the resetTime of the window it was counted in;
\* limiter.last is the latest request (its header only if the proxy read it)
\* with the status of the answer.
InitLimiter ==
  /\ JobIdle /\ BillIdle /\ NormIdle /\ SampleIdle /\ BatchIdle
  /\ HungIdle /\ ReqIdle
  /\ limiter = [pc |-> "run", now |-> ClockStart,
                map |-> [key \in LimiterKeys |-> None],
                untimed |-> [key \in LimiterKeys |-> None],
                admitted |-> [key \in LimiterKeys |-> <<>>],
                last |-> None, requests |-> 0, ticks |-> 0]

ClockTick ==
  /\ limiter.pc = "run"
  /\ limiter.ticks < MaxTicks
  /\ \E step \in ClockSteps :
       limiter' = [limiter EXCEPT !.now = @ + step, !.ticks = @ + 1]
  /\ UNCHANGED <<jobVars, bill, norm, sample, batch, hung, req>>

ProxyRequest ==
  /\ limiter.pc = "run"
  /\ \E forwarded \in ForwardedFor, pathname \in Pathnames :
       LET key == getRateLimitKey(forwarded)
           counted == StartsWithApi(pathname) /\ forwarded = None
           r == proxy(limiter.map, limiter.now, forwarded, pathname)
           u == proxy(limiter.untimed, limiter.now, forwarded, pathname)
       IN /\ counted => limiter.requests < MaxRequests
          /\ (StartsWithApi(pathname) /\ forwarded # None)
               => Len(limiter.admitted[key]) < MaxForwarded
          /\ limiter' =
            [limiter EXCEPT
               !.map = r.map,
               !.untimed = u.map,
               !.requests = IF counted THEN @ + 1 ELSE @,
               !.last = Some([pathname |-> pathname,
                              keyed |-> IF StartsWithApi(pathname)
                                        THEN Some(forwarded) ELSE None,
                              status |-> IF r.limited THEN 429 ELSE 200,
                              untimedStatus |-> IF u.limited THEN 429 ELSE 200]),
               !.admitted =
                 IF StartsWithApi(pathname) /\ ~r.limited
                 THEN [@ EXCEPT ![key] =
                         Append(@, [at |-> limiter.now,
                                    resetTime |-> r.map[key][1].resetTime])]
                 ELSE @]
  /\ UNCHANGED <<jobVars, bill, norm, sample, batch, hung, req>>

TimerFires ==
  /\ limiter.pc = "run"
  /\ limiter' = [limiter EXCEPT !.map = cleanupEntries(@, limiter.now)]
  /\ UNCHANGED <<jobVars, bill, norm, sample, batch, hung, req>>

NextLimiter == ClockTick \/ ProxyRequest \/ TimerFires

SpecLimiter == InitLimiter /\ [][NextLimiter]_vars

\* ------------------------------------------------- POST /api/process (request)
\* One invocation of the endpoint: validation, storing and parsing the two
\* uploads, the row checks, the job, and the catch block. Every write and
\* unlink of a scratch file can fail; a write that fails may leave a partial
\* file behind.
MAX_FILE_SIZE == 100 * 1024 * 1024
MAX_ROWS == 2000000

allowedExtensions == {".csv", ".xlsx", ".xls", ".zip"}
allowedKeys ==
  {"a_number", "b_number", "seize_time", "answer_time", "end_time",
   "billed_duration", "rate", "lrn"}

\* JSON values of a mapping object.
JsonString(s) == [type |-> "string", s |-> s]
JsonNull == [type |-> "null", s |-> ""]
JsonNumber == [type |-> "number", s |-> ""]

\* The mapping the column-mapping screen sends: a column for each required key.
FullMapping ==
  [key \in {"a_number", "b_number", "seize_time", "billed_duration", "lrn"}
     |-> JsonString(key)]

\* mappingA / mappingB form fields: text that JSON.parse rejects, or an object.
MappingTexts ==
  {[parses |-> FALSE, object |-> FullMapping],
   [parses |-> TRUE, object |-> FullMapping],
   [parses |-> TRUE, object |-> ("rate" :> JsonString("rate")) @@ FullMapping],
   [parses |-> TRUE, object |-> ("answer_time" :> JsonNull) @@ FullMapping],
   [parses |-> TRUE, object |-> ("rate" :> JsonNumber) @@ FullMapping],
   [parses |-> TRUE, object |-> ("__proto__" :> JsonString("x")) @@ FullMapping],
   [parses |-> TRUE, object |-> ("seize_time" :> JsonString("")) @@ FullMapping],
   [parses |-> TRUE, object |-> ("a_number" :> JsonNull) @@ FullMapping],
   [parses |-> TRUE,
    object |-> [key \in {"a_number", "b_number", "seize_time", "billed_duration"}
                  |-> JsonString(key)]]}

\* Uploaded files: name (base, extension), size in bytes, what the bytes are
\* ("table": a readable CSV or workbook, "corrupt": unreadable, "zipCsv",
\* "zipXlsx": an archive whose first supported entry is a CSV / a workbook,
\* "zipNone": an archive with no supported entry), and the rows it holds.
UploadedFile(ext, size, content, rows) ==
  [name |-> <<"cdr", ext>>, size |-> size, content |-> content, rows |-> rows]

Files ==
  {UploadedFile(".csv", 1024, "table", 1),
   UploadedFile(".CSV", 1024, "table", 0),
   UploadedFile(".csv", MAX_FILE_SIZE, "table", MAX_ROWS),
   UploadedFile(".csv", MAX_FILE_SIZE, "table", MAX_ROWS + 1),
   UploadedFile(".csv", MAX_FILE_SIZE + 1, "table", 1),
   UploadedFile(".xlsx", 1024, "table", 1),
   UploadedFile(".xls", 1024, "corrupt", 0),
   UploadedFile(".zip", 1024, "zipCsv", 1),
   UploadedFile(".zip", 1024, "zipXlsx", 1),
   UploadedFile(".zip", 1024, "zipNone", 0),
   UploadedFile(".txt", 1024, "table", 1)}

\* formData.get gives null for a field that was not sent.
Requests ==
  [fileA : {None} \cup {Some(f) : f \in Files},
   fileB : {None, Some(UploadedFile(".csv", 1024, "table", 1)),
            Some(UploadedFile(".csv", MAX_FILE_SIZE, "table", MAX_ROWS + 1)),
            Some(UploadedFile(".zip", 1024, "zipXlsx", 1)),
            Some(UploadedFile(".zip", 1024, "zipNone", 0)),
            Some(UploadedFile(".txt", 1024, "table", 1))},
   mappingAStr : {None} \cup {Some(t) : t \in MappingTexts},
   mappingBStr : {None, Some([parses |-> TRUE, object |-> FullMapping]),
                  Some([parses |-> TRUE,
                        object |-> ("rate" :> JsonNumber) @@ FullMapping])}]

\* path.extname(name).toLowerCase()
toLowerCase(ext) == IF ext = ".CSV" THEN ".csv" ELSE ext
extname(name) == name[2]

\* validateMapping returns normally (TRUE) or throws (FALSE).
validateMappingKeysOnly(m) == \A key \in DOMAIN m : key \in allowedKeys

validateMapping(m) ==
  \A key \in DOMAIN m :
    /\ key \in allowedKeys
    /\ m[key].type \in {"null", "string"}

\* !mapping.key is false: the key holds a non-empty string.
MappingGiven(m, key) == key \in DOMAIN m /\ m[key].type = "string" /\ m[key].s # ""

HasRequiredMappings(m) ==
  /\ MappingGiven(m, "a_number") /\ MappingGiven(m, "b_number") /\ MappingGiven(m, "seize_time")
  /\ MappingGiven(m, "billed_duration") /\ MappingGiven(m, "lrn")

\* The checks before anything is stored: the status of the rejection, 0 to go on.
validateRequest(r) ==
  IF r.fileA = None \/ r.fileB = None \/ r.mappingAStr = None \/ r.mappingBStr = None
  THEN 400
  ELSE IF r.fileA[1].size > MAX_FILE_SIZE \/ r.fileB[1].size > MAX_FILE_SIZE
  THEN 413
  ELSE IF \/ toLowerCase(extname(r.fileA[1].name)) \notin allowedExtensions
          \/ toLowerCase(extname(r.fileB[1].name)) \notin allowedExtensions
  THEN 400
  ELSE IF \/ ~r.mappingAStr[1].parses \/ ~r.mappingBStr[1].parses
          \/ ~validateMapping(r.mappingAStr[1].object)
          \/ ~validateMapping(r.mappingBStr[1].object)
  THEN 400
  ELSE IF ~HasRequiredMappings(r.mappingAStr[1].object) THEN 400
  ELSE IF ~HasRequiredMappings(r.mappingBStr[1].object) THEN 400
  ELSE 0

\* writeFile: the file is written; it rejects leaving a partial file; it
\* rejects before the file exists.
WriteOutcomes == {"written", "partial", "nothing"}

\* What the file system does to one parseFile call: the write of the
\* extracted entry, and whether unlinking it fails.
ParseIO == [write : WriteOutcomes, unlinkFails : BOOLEAN]

\* parseFile(filePath, fileName): the rows, or threw; left is what it leaves
\* on disk (extracted is filePath + ".extracted.xlsx") and unlinkFailed the
\* files whose unlink it tried in vain.
parseFile(file, extracted, io) ==
  LET ext == toLowerCase(extname(file.name))
      result(rows, threw, left, failed) ==
        [rows |-> rows, threw |-> threw, left |-> left, unlinkFailed |-> failed]
  IN IF ext = ".csv" THEN result(file.rows, FALSE, {}, {})
     ELSE IF ext \in {".xlsx", ".xls"}
     THEN IF file.content = "table" THEN result(file.rows, FALSE, {}, {})
          ELSE result(0, TRUE, {}, {})
     ELSE IF ext = ".zip"
     THEN IF file.content = "zipCsv" THEN result(file.rows, FALSE, {}, {})
          ELSE IF file.content = "zipXlsx"
          THEN IF io.write = "written"
               THEN IF io.unlinkFails
                    THEN result(file.rows, FALSE, {extracted}, {extracted})
                    ELSE result(file.rows, FALSE, {}, {})
               ELSE IF io.write = "partial"
               THEN result(0, TRUE, {extracted}, {})
               ELSE result(0, TRUE, {}, {})
          ELSE result(0, TRUE, {}, {})
     ELSE result(0, TRUE, {}, {})

\* cleanup(): close the database if it is open, ignoring what close throws,
\* and unlink dbPath, fileAPath and fileBPath, ignoring each rejection.
\* failing are the paths whose unlink fails although the file is there.
cleanupThrowing(artifacts, dbOpen, closeThrows, failing) ==
  [artifacts |-> artifacts \ ({"db", "fileA", "fileB"} \ failing),
   unlinkFailed |-> failing \cap artifacts,
   threw |-> (dbOpen /\ closeThrows) \/ (failing \cap artifacts # {})]

cleanup(artifacts, dbOpen, closeThrows, failing) ==
  [artifacts |-> artifacts \ ({"db", "fileA", "fileB"} \ failing),
   unlinkFailed |-> failing \cap artifacts,
   threw |-> FALSE]

ErrorBody == {"error"}
FailureBody == {"error", "details"}
SuccessBody ==
  {"success", "jobId", "summary", "discrepancies", "hasMore", "totalDiscrepancyCount"}

\* req.artifacts are the scratch files on disk, req.created every scratch
\* file the invocation ever made, req.unlinkFailed those whose unlink was
\* tried and failed, req.parsed whether both parseFile calls returned,
\* req.outcome the status decided before cleanup ran.
InitRequest ==
  /\ JobIdle /\ BillIdle /\ NormIdle /\ SampleIdle /\ BatchIdle
  /\ HungIdle /\ LimiterIdle
  /\ \E r \in Requests :
       req = [pc |-> "validate", request |-> r, artifacts |-> {}, created |-> {},
              unlinkFailed |-> {}, db |-> FALSE, parsed |-> FALSE,
              rowsA |-> 0, rowsB |-> 0,
              outcome |-> 0, response |-> None]

ValidateRequest ==
  /\ req.pc = "validate"
  /\ LET status == validateRequest(req.request)
     IN req' = IF status = 0
               THEN [req EXCEPT !.pc = "store"]
               ELSE [req EXCEPT !.pc = "done", !.outcome = status,
                                !.response = Some([status |-> status,
                                                   body |-> ErrorBody])]
  /\ UNCHANGED <<jobVars, bill, norm, sample, batch, hung, limiter>>

StoreFiles ==
  /\ req.pc = "store"
  /\ \E writeA \in WriteOutcomes, writeB \in WriteOutcomes :
       LET madeA == IF writeA = "nothing" THEN {} ELSE {"fileA"}
           madeB == IF writeA # "written" \/ writeB = "nothing" THEN {} ELSE {"fileB"}
       IN req' = [req EXCEPT
                    !.artifacts = @ \cup madeA \cup madeB,
                    !.created = @ \cup madeA \cup madeB,
                    !.pc = IF writeA = "written" /\ writeB = "written"
                           THEN "parse" ELSE "catch"]
  /\ UNCHANGED <<jobVars, bill, norm, sample, batch, hung, limiter>>

ParseFiles ==
  /\ req.pc = "parse"
  /\ \E ioA \in ParseIO, ioB \in ParseIO :
       LET a == parseFile(req.request.fileA[1], "extractedA", ioA)
           b == parseFile(req.request.fileB[1], "extractedB", ioB)
           madeA == IF req.request.fileA[1].content = "zipXlsx" /\ ioA.write # "nothing"
                    THEN {"extractedA"} ELSE {}
           madeB == IF req.request.fileB[1].content = "zipXlsx" /\ ioB.write # "nothing"
                    THEN {"extractedB"} ELSE {}
       IN req' = IF a.threw
                 THEN [req EXCEPT !.pc = "catch",
                                  !.artifacts = @ \cup a.left,
                                  !.created = @ \cup madeA,
                                  !.unlinkFailed = @ \cup a.unlinkFailed]
                 ELSE [req EXCEPT !.pc = IF b.threw THEN "catch" ELSE "check",
                                  !.artifacts = @ \cup a.left \cup b.left,
                                  !.created = @ \cup madeA \cup madeB,
                                  !.unlinkFailed = @ \cup a.unlinkFailed
                                                     \cup b.unlinkFailed,
                                  !.parsed = ~b.threw,
                                  !.rowsA = a.rows,
                                  !.rowsB = IF b.threw THEN @ ELSE b.rows]
  /\ UNCHANGED <<jobVars, bill, norm, sample, batch, hung, limiter>>

\* The empty-file and row-limit rejections, each after cleanup().
CheckRows ==
  /\ req.pc = "check"
  /\ LET status == IF req.rowsA = 0 \/ req.rowsB = 0 THEN 400
                   ELSE IF req.rowsA > MAX_ROWS \/ req.rowsB > MAX_ROWS THEN 413
                   ELSE 0
     IN IF status = 0
        THEN req' = [req EXCEPT !.pc = "process"]
        ELSE \E failing \in SUBSET {"fileA", "fileB"} :
               LET c == cleanup(req.artifacts, req.db, FALSE, failing)
               IN req' = [req EXCEPT
                            !.artifacts = c.artifacts,
                            !.unlinkFailed = @ \cup c.unlinkFailed,
                            !.outcome = status,
                            !.pc = IF c.threw THEN "catch" ELSE "done",
                            !.response = IF c.threw THEN @
                                         ELSE Some([status |-> status,
                                                    body |-> ErrorBody])]
  /\ UNCHANGED <<jobVars, bill, norm, sample, batch, hung, limiter>>

\* The job: the staging database is created, then staging, matching or
\* aggregation throws, or the summary is built, cleanup() runs and the
\* response is sent.
ProcessJob ==
  /\ req.pc = "process"
  /\ \E throws \in BOOLEAN, closeThrows \in BOOLEAN,
        failing \in SUBSET {"db", "fileA", "fileB"} :
       LET staged == req.artifacts \cup {"db"}
           c == cleanup(staged, TRUE, closeThrows, failing)
       IN req' = IF throws
                 THEN [req EXCEPT !.pc = "catch", !.db = TRUE,
                                  !.artifacts = staged,
                                  !.created = @ \cup {"db"}]
                 ELSE [req EXCEPT
                         !.db = TRUE,
                         !.created = @ \cup {"db"},
                         !.artifacts = c.artifacts,
                         !.unlinkFailed = @ \cup c.unlinkFailed,
                         !.outcome = 200,
                         !.pc = IF c.threw THEN "catch" ELSE "done",
                         !.response = IF c.threw THEN @
                                      ELSE Some([status |-> 200,
                                                 body |-> SuccessBody])]
  /\ UNCHANGED <<jobVars, bill, norm, sample, batch, hung, limiter>>

\* catch (error): cleanup(), then the 500 response. An error leaving the
\* catch block is answered by the framework with a bare 500.
CatchError ==
  /\ req.pc = "catch"
  /\ \E closeThrows \in BOOLEAN, failing \in SUBSET {"db", "fileA", "fileB"} :
       LET c == cleanup(req.artifacts, req.db, closeThrows, failing)
       IN req' = [req EXCEPT
                    !.pc = "done",
                    !.artifacts = c.artifacts,
                    !.unlinkFailed = @ \cup c.unlinkFailed,
                    !.outcome = IF @ = 0 THEN 500 ELSE @,
                    !.response = Some([status |-> 500,
                                       body |-> IF c.threw THEN {}
                                                ELSE FailureBody])]
  /\ UNCHANGED <<jobVars, bill, norm, sample, batch, hung, limiter>>

NextRequest ==
  ValidateRequest \/ StoreFiles \/ ParseFiles \/ CheckRows \/ ProcessJob
    \/ CatchError

SpecRequest == InitRequest /\ [][NextRequest]_vars

Next ==
  \/ RejectEmpty
  \/ Stage
  \/ MatchStep
  \/ FinishMatching
  \/ ClassifyUnmatchedA
  \/ ClassifyUnmatchedB
  \/ CompareMatched
  \/ Summarize
  \/ Respond

Spec == Init /\ [][Next]_vars

\* =================================================================== claims

Staged == pc \notin {"idle", "parsed", "rejected"}

AIds == DOMAIN records_a
BIds == DOMAIN records_b

UnmatchedAIds == {i \in AIds : i \notin MatchedAIds}
UnmatchedBIds == {j \in BIds : j \notin MatchedBIds}

\* ----------------------------------------------------------------------- C1
\* C1: in every state of the greedy pass (so after every prefix of it) and
\* after it, no records_a id and no records_b id occurs in two accepted pairs,
\* and usedAIds / usedBIds are exactly the A ids / B ids of the accepted pairs.
C1_OneToOne ==
  /\ \A k, l \in DOMAIN matches :
       k # l => matches[k][1] # matches[l][1] /\ matches[k][2] # matches[l][2]
  /\ usedAIds = {matches[k][1] : k \in DOMAIN matches}
  /\ usedBIds = {matches[k][2] : k \in DOMAIN matches}

\* The pass is over, two pairs are accepted and a candidate was turned down.
C1_Witness ==
  /\ pc = "match" /\ pending = {}
  /\ Len(matches) = 2
  /\ \E p \in Candidates(records_a, records_b) : p \notin Range(matches)

\* ----------------------------------------------------------------------- C2
\* The candidate relation in the claim's words: equal numbers, and seize times
\* at most 60 s apart with a missing seize time counted as 0.
C2_SeizeOrZero(r) == IF r.seize_time = None THEN 0 ELSE r.seize_time[1]

C2_SeizeGap(a, b) ==
  IF C2_SeizeOrZero(a) >= C2_SeizeOrZero(b)
  THEN C2_SeizeOrZero(a) - C2_SeizeOrZero(b)
  ELSE C2_SeizeOrZero(b) - C2_SeizeOrZero(a)

C2_IsCandidate(i, j) ==
  /\ records_a[i].a_number = records_b[j].a_number
  /\ records_a[i].b_number = records_b[j].b_number
  /\ C2_SeizeGap(records_a[i], records_b[j]) <= 60

\* The unmatched row is reported by a one-sided discrepancy of its side.
ReportedA(i) ==
  \E k \in DOMAIN discrepancies :
    /\ discrepancies[k].type \in {"missing_in_b", "zero_duration_in_b"}
    /\ discrepancies[k].source_index = Some(records_a[i].raw_index)

ReportedB(j) ==
  \E k \in DOMAIN discrepancies :
    /\ discrepancies[k].type \in {"missing_in_a", "zero_duration_in_a"}
    /\ discrepancies[k].source_index = Some(records_b[j].raw_index)

\* C2 (as amended): the candidate stream holds exactly the pairs with equal
\* numbers and seize times at most 60 s apart (missing = 0): every pair the
\* iterator holds or the pass accepted is such a pair, and every such pair is
\* still pending, accepted, or was turned down because one of its rows was
\* taken. Rows more than 60 s apart are never matched to each other, and each
\* of them that is matched to no row is reported as a one-sided discrepancy.
C2_CandidatesWithinTolerance ==
  Staged =>
    /\ \A p \in pending \cup Range(matches) : C2_IsCandidate(p[1], p[2])
    /\ \A i \in AIds, j \in BIds :
         C2_IsCandidate(i, j) =>
           \/ <<i, j>> \in pending
           \/ <<i, j>> \in Range(matches)
           \/ i \in usedAIds
           \/ j \in usedBIds
    /\ \A i \in AIds, j \in BIds :
         C2_SeizeGap(records_a[i], records_b[j]) > 60 =>
           /\ <<i, j>> \notin Range(matches)
           /\ pc = "done" =>
                /\ i \in UnmatchedAIds => ReportedA(i)
                /\ j \in UnmatchedBIds => ReportedB(j)

\* A pair exactly 60 s apart is matched while a row 61 s from its partner's
\* seize time stays unmatched and is reported.
C2_Witness ==
  /\ pc = "done"
  /\ \E k \in DOMAIN matches :
       C2_SeizeGap(records_a[matches[k][1]], records_b[matches[k][2]]) = 60
  /\ \E i \in UnmatchedAIds, j \in BIds :
       /\ records_a[i].a_number = records_b[j].a_number
       /\ records_a[i].b_number = records_b[j].b_number
       /\ C2_SeizeGap(records_a[i], records_b[j]) = 61
       /\ ReportedA(i)

\* C2 as stated: any two rows with equal numbers and seize times more than
\* 60 s apart are not matched to each other and are both reported as missing
\* on the other side.
C2_Original ==
  pc = "done" =>
    \A i \in AIds, j \in BIds :
      ( /\ records_a[i].a_number = records_b[j].a_number
        /\ records_a[i].b_number = records_b[j].b_number
        /\ C2_SeizeGap(records_a[i], records_b[j]) > 60 ) =>
        /\ <<i, j>> \notin Range(matches)
        /\ ReportedA(i)
        /\ ReportedB(j)

\* ----------------------------------------------------------------------- C3
\* C3 (as amended): matched_records + billed_missing_in_provider +
\* zero_duration_in_yours = total_records_a, and matched_records +
\* billed_missing_in_yours + zero_duration_in_provider = total_records_b.
C3_RecordsAddUp ==
  pc = "done" =>
    /\ summary.matchedRecords + summary.billedMissingInProvider
         + summary.zeroDurationInYours = summary.totalRecordsA
    /\ summary.matchedRecords + summary.billedMissingInYours
         + summary.zeroDurationInProvider = summary.totalRecordsB
    /\ summary.totalRecordsA = Len(records_a)
    /\ summary.totalRecordsB = Len(records_b)

\* A job with a matched pair, a billed unmatched A row and a zero-duration one.
C3_Witness ==
  /\ pc = "done"
  /\ summary.matchedRecords >= 1
  /\ summary.billedMissingInProvider >= 1
  /\ summary.zeroDurationInYours >= 1

\* C3 as stated: matched_records + billed_missing_in_yours +
\* zero_duration_in_yours = total_records_a, and symmetrically for B.
C3_Original ==
  pc = "done" =>
    /\ summary.matchedRecords + summary.billedMissingInYours
         + summary.zeroDurationInYours = summary.totalRecordsA
    /\ summary.matchedRecords + summary.billedMissingInProvider
         + summary.zeroDurationInProvider = summary.totalRecordsB

\* ----------------------------------------------------------------------- C4
C4_ZeroIds(table, ids) == {i \in ids : table[i].billed_duration = 0}

\* C4 (as amended): missing_in_yours is the number of unmatched B rows and is
\* split by duration = 0 into zero_duration_in_provider and
\* billed_missing_in_yours; missing_in_provider is the number of unmatched A
\* rows and is split the same way into zero_duration_in_yours and
\* billed_missing_in_provider.
C4_MissingSplit ==
  pc = "done" =>
    /\ summary.missingInYours = Cardinality(UnmatchedBIds)
    /\ summary.zeroDurationInProvider = Cardinality(C4_ZeroIds(records_b, UnmatchedBIds))
    /\ summary.billedMissingInYours =
         Cardinality(UnmatchedBIds \ C4_ZeroIds(records_b, UnmatchedBIds))
    /\ summary.zeroDurationInProvider + summary.billedMissingInYours
         = summary.missingInYours
    /\ summary.missingInProvider = Cardinality(UnmatchedAIds)
    /\ summary.zeroDurationInYours = Cardinality(C4_ZeroIds(records_a, UnmatchedAIds))
    /\ summary.billedMissingInProvider =
         Cardinality(UnmatchedAIds \ C4_ZeroIds(records_a, UnmatchedAIds))
    /\ summary.zeroDurationInYours + summary.billedMissingInProvider
         = summary.missingInProvider

\* A matched pair beside unmatched B rows of both kinds.
C4_Witness ==
  /\ pc = "done"
  /\ summary.matchedRecords >= 1
  /\ summary.zeroDurationInProvider >= 1
  /\ summary.billedMissingInYours >= 1

\* C4 as stated: missing_in_yours counts the unmatched A rows and is the sum
\* of zero_duration_in_yours and billed_missing_in_yours; missing_in_provider
\* counts the unmatched B rows and is the sum of zero_duration_in_provider and
\* billed_missing_in_provider.
C4_Original ==
  pc = "done" =>
    /\ summary.missingInYours = Cardinality(UnmatchedAIds)
    /\ summary.zeroDurationInYours + summary.billedMissingInYours
         = summary.missingInYours
    /\ summary.missingInProvider = Cardinality(UnmatchedBIds)
    /\ summary.zeroDurationInProvider + summary.billedMissingInProvider
         = summary.missingInProvider

\* ----------------------------------------------------------------------- C5
\* The positions in the response of the one-sided discrepancies of a row.
OneSidedOfA(i) ==
  {k \in DOMAIN discrepancies :
     /\ discrepancies[k].type \in {"missing_in_b", "zero_duration_in_b"}
     /\ discrepancies[k].source_index = Some(records_a[i].raw_index)}

OneSidedOfB(j) ==
  {k \in DOMAIN discrepancies :
     /\ discrepancies[k].type \in {"missing_in_a", "zero_duration_in_a"}
     /\ discrepancies[k].source_index = Some(records_b[j].raw_index)}

\* C5: every unmatched A row yields exactly one discrepancy, zero_duration_in_b
\* exactly when its duration is 0 and missing_in_b only when its duration is
\* greater than 0; symmetrically for every unmatched B row; a row of duration
\* 0 has cost 0 and is never reported as missing_*.
C5_OneSidedByDuration ==
  pc = "done" =>
    /\ \A i \in UnmatchedAIds :
         /\ Cardinality(OneSidedOfA(i)) = 1
         /\ \A k \in OneSidedOfA(i) :
              /\ discrepancies[k].type = "zero_duration_in_b"
                   <=> records_a[i].billed_duration = 0
              /\ discrepancies[k].type = "missing_in_b"
                   => records_a[i].billed_duration > 0
              /\ records_a[i].billed_duration = 0
                   => discrepancies[k].your_cost = Some(0)
    /\ \A j \in UnmatchedBIds :
         /\ Cardinality(OneSidedOfB(j)) = 1
         /\ \A k \in OneSidedOfB(j) :
              /\ discrepancies[k].type = "zero_duration_in_a"
                   <=> records_b[j].billed_duration = 0
              /\ discrepancies[k].type = "missing_in_a"
                   => records_b[j].billed_duration > 0
              /\ records_b[j].billed_duration = 0
                   => discrepancies[k].provider_cost = Some(0)

\* ----------------------------------------------------------------------- C6
Compared == pc \in {"totals", "done"}

\* The positions in the response of the discrepancies of a matched pair.
OfPair(p) ==
  {k \in DOMAIN discrepancies :
     /\ discrepancies[k].source_index_a = Some(records_a[p[1]].raw_index)
     /\ discrepancies[k].source_index_b = Some(records_b[p[2]].raw_index)}

PairCostDiff(p) ==
  calculateCallCost(records_a[p[1]].billed_duration, records_a[p[1]].rate)
  - calculateCallCost(records_b[p[2]].billed_duration, records_b[p[2]].rate)

LrnsDiffer(p) ==
  /\ records_a[p[1]].lrn # <<>>
  /\ records_b[p[2]].lrn # <<>>
  /\ records_a[p[1]].lrn # records_b[p[2]].lrn

C6_ExpectedType(p) ==
  LET dd == Abs(records_a[p[1]].billed_duration - records_b[p[2]].billed_duration)
      rd == Abs(records_a[p[1]].rate - records_b[p[2]].rate)
  IN CASE dd > 1 /\ rd <= 1 -> "duration_mismatch"
       [] rd > 1 /\ dd <= 1 -> "rate_mismatch"
       [] OTHER -> "cost_mismatch"

RawLrnA(p) == dataA[records_a[p[1]].raw_index + 1].lrn
RawLrnB(p) == dataB[records_b[p[2]].raw_index + 1].lrn

\* The two LRN cells of the files are both non-empty and differ.
RawLrnsDiffer(p) ==
  /\ RawLrnA(p).t = "str" /\ RawLrnA(p).v # <<>>
  /\ RawLrnB(p).t = "str" /\ RawLrnB(p).v # <<>>
  /\ RawLrnA(p).v # RawLrnB(p).v

C7_OnlyLrnMismatch(p) ==
  /\ Cardinality(OfPair(p)) = 1
  /\ \A k \in OfPair(p) :
       /\ discrepancies[k].type = "lrn_mismatch"
       /\ discrepancies[k].cost_difference = PairCostDiff(p)
       /\ discrepancies[k].your_cost # None
       /\ discrepancies[k].provider_cost # None
       /\ discrepancies[k].cost_difference
            = discrepancies[k].your_cost[1] - discrepancies[k].provider_cost[1]

\* C7 (as amended): for every matched pair whose two LRN values as staged
\* (reduced to their digits) are both non-empty and differ, exactly one
\* discrepancy is emitted, of type lrn_mismatch, with cost_difference =
\* your_cost - provider_cost, and no duration / rate / cost variant, whatever
\* the cost difference; a pair with an LRN cell that holds no digit gets no
\* lrn_mismatch.
C7_LrnMismatchExclusive ==
  Compared =>
    \A p \in Range(matches) :
      /\ LrnsDiffer(p) => C7_OnlyLrnMismatch(p)
      /\ ( \/ SelectSeq(RawLrnA(p).v, IsDigit) = <<>>
           \/ SelectSeq(RawLrnB(p).v, IsDigit) = <<>> )
           => \A k \in OfPair(p) : discrepancies[k].type # "lrn_mismatch"

\* An lrn_mismatch whose cost difference is above the threshold.
C7_Witness ==
  /\ pc = "done"
  /\ \E p \in Range(matches) :
       /\ LrnsDiffer(p)
       /\ Abs(PairCostDiff(p)) > 10
       /\ \E k \in OfPair(p) : discrepancies[k].type = "lrn_mismatch"

\* C7 as stated: the LRN values are those of the files (AAA against BBB).
C7_Original ==
  Compared =>
    \A p \in Range(matches) : RawLrnsDiffer(p) => C7_OnlyLrnMismatch(p)

\* ----------------------------------------------------------------------- C8
\* C8: for every emitted discrepancy, cost_difference = your_cost -
\* provider_cost when both are present; a one-sided A record has no
\* provider_cost and cost_difference = +your_cost; a one-sided B record has no
\* your_cost and cost_difference = -provider_cost.
C8_CostDifferenceSign ==
  \A k \in DOMAIN discrepancies :
    LET d == discrepancies[k]
    IN /\ (d.your_cost # None /\ d.provider_cost # None)
            => d.cost_difference = d.your_cost[1] - d.provider_cost[1]
       /\ d.type \in {"missing_in_b", "zero_duration_in_b"}
            => /\ d.provider_cost = None
               /\ d.your_cost # None
               /\ d.cost_difference = d.your_cost[1]
       /\ d.type \in {"missing_in_a", "zero_duration_in_a"}
            => /\ d.your_cost = None
               /\ d.provider_cost # None
               /\ d.cost_difference = -(d.provider_cost[1])

\* A response with a billed one-sided record of each side.
C8_Witness ==
  /\ pc = "done"
  /\ \E k \in DOMAIN discrepancies :
       discrepancies[k].type = "missing_in_a" /\ discrepancies[k].cost_difference < 0
  /\ \E k \in DOMAIN discrepancies :
       discrepancies[k].type = "missing_in_b" /\ discrepancies[k].cost_difference > 0

\* ----------------------------------------------------------------------- C9
BillDone == bill.pc = "done"

\* C9: call_cost(d, r) = increments(d) * r / 10 (increments * r in units of
\* 0.00001 $ for r in units of 0.0001 $), increments(d) being 0 for d <= 0 and
\* otherwise the least n with 6 * n >= d: 1 for 1..6, 2 for 7, 3 for 13; for a
\* fixed r >= 0 the cost does not decrease with d, and for a fixed d >= 0 it
\* does not decrease with r.
C9_IncrementBilling ==
  BillDone =>
    /\ \A i \in DOMAIN bill.rows :
         LET d == bill.rows[i].billed_duration
             n == bill.increments[i]
         IN /\ d <= 0 => n = 0
            /\ d > 0 => 6 * n >= d /\ 6 * (n - 1) < d
            /\ d \in 1..6 => n = 1
            /\ d = 7 => n = 2
            /\ d = 13 => n = 3
            /\ bill.costs[i] = n * bill.rows[i].rate
    /\ \A i, j \in DOMAIN bill.rows :
         /\ ( /\ bill.rows[i].rate = bill.rows[j].rate
              /\ bill.rows[i].rate >= 0
              /\ bill.rows[i].billed_duration <= bill.rows[j].billed_duration )
              => bill.costs[i] <= bill.costs[j]
         /\ ( /\ bill.rows[i].billed_duration = bill.rows[j].billed_duration
              /\ bill.rows[i].billed_duration >= 0
              /\ bill.rows[i].rate <= bill.rows[j].rate )
              => bill.costs[i] <= bill.costs[j]

\* Durations 7 and 13 at one positive rate: 2 and 3 increments.
C9_Witness ==
  /\ BillDone
  /\ \E i, j \in DOMAIN bill.rows :
       /\ bill.rows[i].billed_duration = 7 /\ bill.rows[j].billed_duration = 13
       /\ bill.rows[i].rate = bill.rows[j].rate /\ bill.rows[i].rate > 0
       /\ bill.increments[i] = 2 /\ bill.increments[j] = 3
       /\ bill.costs[i] < bill.costs[j]

\* ---------------------------------------------------------------------- C10
\* C10: for every staged row the SQL billing expression - 0 when d <= 0,
\* otherwise ((d + 5) integer-divided by 6) * r / 10 - equals
\* calculateCallCost(d, r), so the total the SQL aggregation returns for a
\* side is the sum of the per-row call_cost, and the summary reports that sum
\* rounded to cents.
C10_SqlTotalsEqualCallCosts ==
  BillDone =>
    /\ \A i \in DOMAIN bill.rows :
         LET d == bill.rows[i].billed_duration
             r == bill.rows[i].rate
         IN /\ bill.sqlCosts[i] = bill.costs[i]
            /\ bill.sqlCosts[i] = IF d <= 0 THEN 0 ELSE ((d + 5) \div 6) * r
    /\ bill.sqlTotal = SumSeq(bill.costs)
    /\ bill.sqlTotal = bill.appTotal
    /\ bill.totalBilled = RoundCents(SumSeq(bill.costs))

\* A table with a row of 13 s (3 increments) and a row of negative duration,
\* both at a positive rate.
C10_Witness ==
  /\ BillDone
  /\ \E i, j \in DOMAIN bill.rows :
       /\ bill.rows[i].billed_duration = 13 /\ bill.rows[i].rate > 0
       /\ bill.rows[j].billed_duration < 0 /\ bill.rows[j].rate > 0
  /\ bill.totalBilled > 0

\* ---------------------------------------------------------------------- C11
\* The number of emitted discrepancies of a type.
EmittedOfType(type) ==
  Cardinality({k \in DOMAIN discrepancies : discrepancies[k].type = type})

\* C11: the summary's count of each discrepancy type is the number of emitted
\* discrepancies of that type (missing_in_a: billedMissingInYours,
\* missing_in_b: billedMissingInProvider, zero_duration_in_a:
\* zeroDurationInProvider, zero_duration_in_b: zeroDurationInYours, and the
\* four mismatch counts), and the eight counts add up to totalDiscrepancies,
\* the number of discrepancies the classifier emitted.
C11_TypeCountsAddUp ==
  pc = "done" =>
    /\ summary.billedMissingInYours = EmittedOfType("missing_in_a")
    /\ summary.billedMissingInProvider = EmittedOfType("missing_in_b")
    /\ summary.zeroDurationInProvider = EmittedOfType("zero_duration_in_a")
    /\ summary.zeroDurationInYours = EmittedOfType("zero_duration_in_b")
    /\ summary.durationMismatches = EmittedOfType("duration_mismatch")
    /\ summary.rateMismatches = EmittedOfType("rate_mismatch")
    /\ summary.costMismatches = EmittedOfType("cost_mismatch")
    /\ summary.lrnMismatches = EmittedOfType("lrn_mismatch")
    /\ summary.billedMissingInYours + summary.billedMissingInProvider
         + summary.zeroDurationInYours + summary.zeroDurationInProvider
         + summary.durationMismatches + summary.rateMismatches
         + summary.costMismatches + summary.lrnMismatches
         = summary.totalDiscrepancies
    /\ summary.totalDiscrepancies = Len(discrepancies)

\* A job with a zero-duration row, a missing row and a mismatching pair.
C11_Witness ==
  /\ pc = "done"
  /\ summary.zeroDurationInYours >= 1
  /\ summary.billedMissingInProvider >= 1
  /\ summary.durationMismatches + summary.costMismatches >= 1
  /\ summary.totalDiscrepancies = 3

\* ---------------------------------------------------------------------- C12
\* C12: every row written to the staging tables has billed_duration >= 0 and
\* rate >= 0, whatever the raw cells of the file hold.
C12_StagedNonNegative ==
  Staged =>
    /\ \A i \in AIds : records_a[i].billed_duration >= 0 /\ records_a[i].rate >= 0
    /\ \A j \in BIds : records_b[j].billed_duration >= 0 /\ records_b[j].rate >= 0

\* ---------------------------------------------------------------------- C13
TimestampTwice == norm.pc = "twice" /\ norm.fn = "normalizeTimestamp"

PhoneOnce == norm.pc \in {"once", "twice"} /\ norm.fn = "normalizePhoneNumber"

PhoneDigitsOf(cell) == IF cell.t = "null" THEN <<>> ELSE SelectSeq(cell.v, IsDigit)

\* C14: normalizePhoneNumber returns only the digits 0-9; it strips at most
\* one prefix per call (1 from 11 digits, 01 from 12, 001 from 13); characters
\* that are no digits, inserted anywhere, do not change the result; and the
\* function applied to its own result returns that result.
C14_PhoneDigitsIdempotent ==
  PhoneOnce =>
    LET all == PhoneDigitsOf(norm.input)
    IN /\ \A k \in DOMAIN norm.once :
            norm.once[k] \in {"0", "1", "2", "3", "4", "5", "6", "7", "8", "9"}
       /\ \/ norm.once = all
          \/ Len(all) = 11 /\ all = <<"1">> \o norm.once
          \/ Len(all) = 12 /\ all = <<"0", "1">> \o norm.once
          \/ Len(all) = 13 /\ all = <<"0", "0", "1">> \o norm.once
       /\ (Len(all) = 11 /\ all[1] = "1") => Len(norm.once) = 10
       /\ norm.once = norm.clean
       /\ norm.pc = "twice" => norm.twice = norm.once

\* A number written with a country prefix and a non-digit: the prefix is
\* stripped and the second call changes nothing, although the result begins
\* with 1 again.
C14_Witness ==
  /\ norm.pc = "twice" /\ norm.fn = "normalizePhoneNumber"
  /\ norm.input.t = "str"
  /\ Len(norm.input.v) = 13
  /\ Len(norm.digits) = 12
  /\ Len(norm.once) = 10
  /\ norm.once[1] = "1"
  /\ norm.twice = norm.once

\* ---------------------------------------------------------------------- C15
\* The rows of the file the loop has passed.
BatchPassed == IF batch.i < Len(batch.data) THEN batch.i ELSE Len(batch.data)

\* C15: whatever the batch size, after every batch the table holds the rows
\* the loop has passed, each exactly once and in source order, the k-th with
\* raw_index k - 1 (its 0-based position in the file); at the end every row
\* of the file is stored, and the raw_index values are pairwise different.
C15_BatchedIngestKeepsOrder ==
  batch.pc \in {"insert", "done"} =>
    /\ Len(batch.table) = BatchPassed
    /\ \A k \in DOMAIN batch.table :
         /\ batch.table[k].raw_index = k - 1
         /\ batch.table[k].id = k
         /\ batch.table[k] = StageRow(batch.data[k], Mapped, k - 1)
    /\ \A k, l \in DOMAIN batch.table :
         k # l => batch.table[k].raw_index # batch.table[l].raw_index
    /\ batch.pc = "done" =>
         /\ Len(batch.table) = Len(batch.data)
         /\ batch.table = StageTable(batch.data, Mapped)

\* Five rows inserted in batches of two: the last batch is short.
C15_Witness ==
  /\ batch.pc = "done"
  /\ batch.size = 2
  /\ Len(batch.data) = 5
  /\ Len(batch.table) = 5
  /\ batch.table[5].raw_index = 4
  /\ batch.data[1] # batch.data[3]

\* ---------------------------------------------------------------------- C16
SampleDone == sample.pc = "done"

AllTypes ==
  {"missing_in_a", "lrn_mismatch", "duration_mismatch", "rate_mismatch",
   "cost_mismatch", "missing_in_b", "zero_duration_in_a", "zero_duration_in_b"}

\* Discrepancies of a type that were emitted, and that are returned.
SampleEmittedOfType(type) == RunCount(sample.emitted, type)
SampleReturnedOfType(type) == RunCount(sample.discrepancies, type)

SampleTotal == RunLength(sample.emitted)

SampleTypesPresent == {type \in AllTypes : SampleEmittedOfType(type) > 0}

\* The share of a type when more than 5000 discrepancies were emitted.
C16_Share(n) ==
  LET T == Cardinality(SampleTypesPresent)
      reserved == IF 100 * T <= 2500 THEN 100 * T ELSE 2500
      proportional == ((5000 - reserved) * n) \div SampleTotal
      wanted == IF proportional >= 100 THEN proportional ELSE 100
  IN IF n <= wanted THEN n ELSE wanted

\* C16 (as amended): the returned list holds at most 5000 discrepancies of a
\* type and no smaller cap per type exists: when at most 5000 discrepancies
\* were emitted, all n of a type are returned; when N > 5000 were emitted, in
\* T types, the type contributes at most min(n, max(100, floor((5000 -
\* min(100 * T, 2500)) * n / N))).
C16_PerTypeShare ==
  SampleDone =>
    \A type \in AllTypes :
      /\ SampleReturnedOfType(type) <= 5000
      /\ SampleTotal <= 5000
           => SampleReturnedOfType(type) = SampleEmittedOfType(type)
      /\ SampleTotal > 5000
           => SampleReturnedOfType(type) <= C16_Share(SampleEmittedOfType(type))

\* 8000 discrepancies of one type: 4900 of them are returned.
C16_Witness ==
  /\ SampleDone
  /\ SampleTotal > 5000
  /\ \E type \in AllTypes :
       /\ SampleEmittedOfType(type) = 8000
       /\ SampleReturnedOfType(type) = 4900

\* C16 as stated: at most 1000 discrepancies of a type are returned.
C16_Original ==
  SampleDone => \A type \in AllTypes : SampleReturnedOfType(type) <= 1000

\* ---------------------------------------------------------------------- C17
\* The discrepancies of the at-th emitted run that are returned.
SampleRetained(at) ==
  RunLength(SelectSeq(sample.discrepancies, LAMBDA r : r.at = at))

\* C17: the returned list has at most 5000 entries; a type with n emitted
\* discrepancies has at least min(n, 100) of them in the list; when at most
\* 5000 discrepancies were emitted, every one of them is returned.
C17_TotalCapAndMinimum ==
  SampleDone =>
    /\ RunLength(sample.discrepancies) <= 5000
    /\ \A type \in AllTypes :
         /\ SampleEmittedOfType(type) >= 100 => SampleReturnedOfType(type) >= 100
         /\ SampleEmittedOfType(type) < 100
              => SampleReturnedOfType(type) = SampleEmittedOfType(type)
    /\ SampleTotal <= 5000 =>
         /\ RunLength(sample.discrepancies) = SampleTotal
         /\ \A k \in DOMAIN sample.emitted : SampleRetained(k) = sample.emitted[k].n

\* More than 5000 emitted; a type of 150 whose proportional share is below
\* 100 keeps exactly 100.
C17_Witness ==
  /\ SampleDone
  /\ SampleTotal > 5000
  /\ RunLength(sample.discrepancies) <= 5000
  /\ \E type \in AllTypes :
       SampleEmittedOfType(type) = 150 /\ SampleReturnedOfType(type) = 100

\* ---------------------------------------------------------------------- C18
SampleDropped(at) == sample.emitted[at].n - SampleRetained(at)

\* C18: within a type, no dropped discrepancy has a strictly greater
\* |cost_difference| than a retained one, and among discrepancies of equal
\* |cost_difference| the earlier emitted are retained first (so when all of a
\* type cost the same, the retained ones are the earliest emitted). A returned
\* run is a prefix of its emitted run.
C18_RetentionByImpact ==
  SampleDone =>
    /\ \A k \in DOMAIN sample.emitted :
         SampleRetained(k) >= 0 /\ SampleRetained(k) <= sample.emitted[k].n
    /\ \A k, l \in DOMAIN sample.emitted :
         (sample.emitted[k].type = sample.emitted[l].type) =>
           /\ (SampleDropped(k) > 0 /\ SampleRetained(l) > 0)
                => Abs(sample.emitted[k].cost_difference)
                     <= Abs(sample.emitted[l].cost_difference)
           /\ ( /\ Abs(sample.emitted[k].cost_difference)
                     = Abs(sample.emitted[l].cost_difference)
                /\ k < l
                /\ SampleRetained(l) > 0 )
                => SampleDropped(k) = 0

\* Two runs of one type and equal |cost_difference|: the earlier is kept whole
\* and the later is cut.
C18_Witness ==
  /\ SampleDone
  /\ \E k, l \in DOMAIN sample.emitted :
       /\ k < l
       /\ sample.emitted[k].type = sample.emitted[l].type
       /\ sample.emitted[k].cost_difference = -(sample.emitted[l].cost_difference)
       /\ SampleDropped(k) = 0
       /\ SampleRetained(l) > 0 /\ SampleDropped(l) > 0

\* ---------------------------------------------------------------------- C19
\* C19: the summary's counts and monetaryImpact and the response's
\* totalDiscrepancyCount are those of the emitted list, whatever part of it is
\* returned; hasMore is true exactly when totalDiscrepancyCount exceeds the
\* length of the returned list.
C19_SummaryOverAllEmitted ==
  SampleDone =>
    /\ sample.summary.totalDiscrepancies = SampleTotal
    /\ sample.summary.rateMismatches = SampleEmittedOfType("rate_mismatch")
    /\ sample.summary.durationMismatches = SampleEmittedOfType("duration_mismatch")
    /\ sample.summary.costMismatches = SampleEmittedOfType("cost_mismatch")
    /\ sample.summary.monetaryImpact = RoundCents(RunImpact(sample.emitted))
    /\ sample.totalDiscrepancyCount = SampleTotal
    /\ sample.hasMore <=>
         (sample.totalDiscrepancyCount > RunLength(sample.discrepancies))

\* Some rate mismatches are dropped from the returned list and still counted.
C19_Witness ==
  /\ SampleDone
  /\ sample.hasMore
  /\ sample.summary.rateMismatches > SampleReturnedOfType("rate_mismatch")
  /\ sample.summary.monetaryImpact # RoundCents(RunImpact(sample.discrepancies))

\* ---------------------------------------------------------------------- C20
C20_Rank(type) ==
  CASE type = "missing_in_a" -> 1
    [] type = "lrn_mismatch" -> 2
    [] type = "duration_mismatch" -> 3
    [] type = "rate_mismatch" -> 4
    [] type = "cost_mismatch" -> 5
    [] type = "missing_in_b" -> 6
    [] type = "zero_duration_in_a" -> 7
    [] type = "zero_duration_in_b" -> 8

\* C20 (as amended): the returned discrepancies are ordered by type rank and,
\* within a type, by |cost_difference| descending, whatever the order of
\* emission; discrepancies of one type and equal |cost_difference| follow each
\* other in the order in which they were emitted.
C20_DisplayOrder ==
  SampleDone =>
    \A i, j \in DOMAIN sample.discrepancies :
      i < j =>
        LET a == sample.discrepancies[i]
            b == sample.discrepancies[j]
        IN /\ C20_Rank(a.type) <= C20_Rank(b.type)
           /\ C20_Rank(a.type) = C20_Rank(b.type)
                => Abs(a.cost_difference) >= Abs(b.cost_difference)
           /\ ( /\ a.type = b.type
                /\ Abs(a.cost_difference) = Abs(b.cost_difference) )
                => a.at < b.at

\* The list comes back in another order than it was emitted in, with two
\* discrepancies of one type, +c and -c, in their order of emission.
C20_Witness ==
  /\ SampleDone
  /\ \E i, j \in DOMAIN sample.discrepancies :
       i < j /\ sample.discrepancies[i].at > sample.discrepancies[j].at
  /\ \E i, j \in DOMAIN sample.discrepancies :
       /\ i < j
       /\ sample.discrepancies[i].type = sample.discrepancies[j].type
       /\ sample.discrepancies[i].cost_difference
            = -(sample.discrepancies[j].cost_difference)
       /\ sample.discrepancies[i].cost_difference # 0

\* The list a sequence of runs stands for: neighbours of one type and one
\* cost_difference joined, positions in the emitted list left out.
RECURSIVE C20_Joined(_)
C20_Joined(runs) ==
  IF runs = <<>> THEN <<>>
  ELSE LET rest == C20_Joined(Tail(runs))
           h == Head(runs)
       IN IF h.n = 0 THEN rest
          ELSE IF rest # <<>> /\ rest[1].type = h.type
                  /\ rest[1].cost_difference = h.cost_difference
          THEN <<Run(h.type, h.cost_difference, h.n + rest[1].n)>> \o Tail(rest)
          ELSE <<Run(h.type, h.cost_difference, h.n)>> \o rest

\* The emitted list in another order the three loops could have produced.
C20_Reorderings ==
  LET n == Len(sample.emitted)
      perms == {f \in [1..n -> 1..n] : \A x, y \in 1..n : x # y => f[x] # f[y]}
      lists == {[k \in 1..n |-> sample.emitted[f[k]]] : f \in perms}
  IN {Numbered([k \in 1..n |-> Run(l[k].type, l[k].cost_difference, l[k].n)]) :
        l \in {m \in lists : PhaseOrdered(m)}}

\* C20 as stated: the returned order does not depend on the order of emission.
C20_Original ==
  SampleDone =>
    \A other \in C20_Reorderings :
      C20_Joined(Returned(other)) = C20_Joined(sample.discrepancies)

\* ---------------------------------------------------------------------- C24
PassOver == Staged /\ pending = {}

C24_OneToOne(M) ==
  \A p, q \in M : p # q => p[1] # q[1] /\ p[2] # q[2]

\* The one-to-one matchings over the candidate set of the job.
C24_Matchings ==
  {M \in SUBSET Candidates(records_a, records_b) : C24_OneToOne(M)}

C24_Gap(p) == TimeDiff(records_a[p[1]], records_b[p[2]])

RECURSIVE C24_TotalGap(_)
C24_TotalGap(M) ==
  IF M = {} THEN 0
  ELSE LET p == CHOOSE x \in M : TRUE IN C24_Gap(p) + C24_TotalGap(M \ {p})

\* C24 (as amended): the greedy result is a one-to-one matching over the
\* candidate set whose first pair has the least |seize_a - seize_b| of all
\* candidates; no other one-to-one matching pairs more than twice as many rows;
\* and when no two candidates share a row, every candidate is accepted.
C24_GreedyWithinFactorTwo ==
  PassOver =>
    /\ Range(matches) \in C24_Matchings
    /\ Candidates(records_a, records_b) # {} =>
         /\ matches # <<>>
         /\ \A p \in Candidates(records_a, records_b) :
              C24_Gap(matches[1]) <= C24_Gap(p)
    /\ \A M \in C24_Matchings : Cardinality(M) <= 2 * Len(matches)
    /\ C24_OneToOne(Candidates(records_a, records_b))
         => Range(matches) = Candidates(records_a, records_b)

\* The greedy pass accepted one pair where two pairs can be matched.
C24_Witness ==
  /\ PassOver
  /\ Len(matches) = 1
  /\ \E M \in C24_Matchings : Cardinality(M) = 2

\* C24 as stated: no matching pairs more rows, and none with as many pairs has
\* a smaller total time difference.
C24_Original ==
  PassOver =>
    \A M \in C24_Matchings :
      /\ Cardinality(M) <= Len(matches)
      /\ Cardinality(M) = Len(matches)
           => C24_TotalGap(M) >= C24_TotalGap(Range(matches))

\* ---------------------------------------------------------------------- C27
\* The candidates the iterator has yielded so far.
Visited == Candidates(records_a, records_b) \ pending

Rejected == Visited \ Range(matches)

\* p ranks strictly before q in (|delta time|, |delta duration|).
C27_RanksBefore(p, q) ==
  \/ C24_Gap(p) < C24_Gap(q)
  \/ /\ C24_Gap(p) = C24_Gap(q)
     /\ Abs(records_a[p[1]].billed_duration - records_b[p[2]].billed_duration)
          < Abs(records_a[q[1]].billed_duration - records_b[q[2]].billed_duration)

C27_State ==
  Staged =>
    /\ \A v \in Visited : \A q \in pending : ~C27_RanksBefore(q, v)
    /\ \A p \in Rejected :
         \E k \in DOMAIN matches :
           /\ matches[k][1] = p[1] \/ matches[k][2] = p[2]
           /\ ~C27_RanksBefore(p, matches[k])
    /\ pending = {} =>
         \A p \in Candidates(records_a, records_b) :
           p[1] \in MatchedAIds \/ p[2] \in MatchedBIds

\* One iteration of the loop: the candidate it takes is accepted exactly when
\* neither of its rows is in a pair accepted before.
C27_Step ==
  (pc = "match" /\ pending' # pending) =>
    \E p \in pending :
      /\ pending' = pending \ {p}
      /\ IF /\ \A k \in DOMAIN matches : matches[k][1] # p[1]
            /\ \A k \in DOMAIN matches : matches[k][2] # p[2]
         THEN matches' = Append(matches, p)
         ELSE matches' = matches

\* C27: the greedy pass visits the candidates in non-decreasing (|delta time|,
\* |delta duration|) order and accepts a candidate exactly when neither of its
\* rows is taken at that moment; every rejected candidate shares a row with an
\* accepted pair that ranks no later; when the pass is over no candidate is
\* left with both of its rows unmatched.
C27_GreedyPass == [][C27_Step]_vars /\ []C27_State

\* The pass is over and turned down a candidate that ranks strictly later than
\* the accepted pair it shares a row with.
C27_Witness ==
  /\ PassOver /\ pc = "match"
  /\ \E p \in Rejected :
       \E k \in DOMAIN matches :
         /\ matches[k][1] = p[1] \/ matches[k][2] = p[2]
         /\ C27_RanksBefore(matches[k], p)

\* ---------------------------------------------------------------------- C28
C28_PairsOfA(i) == {k \in DOMAIN matches : matches[k][1] = i}
C28_PairsOfB(j) == {k \in DOMAIN matches : matches[k][2] = j}

C28_OneSided(types) == {k \in DOMAIN discrepancies : discrepancies[k].type \in types}

C28_State ==
  pc \in {"done", "responded"} =>
    /\ \A i \in AIds :
         \/ Cardinality(C28_PairsOfA(i)) = 1 /\ OneSidedOfA(i) = {}
         \/ Cardinality(C28_PairsOfA(i)) = 0 /\ Cardinality(OneSidedOfA(i)) = 1
    /\ \A j \in BIds :
         \/ Cardinality(C28_PairsOfB(j)) = 1 /\ OneSidedOfB(j) = {}
         \/ Cardinality(C28_PairsOfB(j)) = 0 /\ Cardinality(OneSidedOfB(j)) = 1
    /\ C28_OneSided({"missing_in_b", "zero_duration_in_b"})
         = UNION {OneSidedOfA(i) : i \in AIds}
    /\ C28_OneSided({"missing_in_a", "zero_duration_in_a"})
         = UNION {OneSidedOfB(j) : j \in BIds}
    /\ summary.matchedRecords + Cardinality(UnmatchedAIds) = summary.totalRecordsA
    /\ summary.matchedRecords + Cardinality(UnmatchedBIds) = summary.totalRecordsB
    /\ summary.missingInProvider = Cardinality(UnmatchedAIds)
    /\ summary.missingInYours = Cardinality(UnmatchedBIds)

\* Matching and classification leave the staged rows as they are.
C28_Step ==
  Staged => (records_a' = records_a /\ records_b' = records_b)

\* C28: every staged A row is in exactly one accepted pair or yields exactly
\* one missing_in_b / zero_duration_in_b discrepancy, never both and never
\* neither, so matchedRecords plus the unmatched A rows is totalRecordsA; the
\* same for B with missing_in_a / zero_duration_in_a; the staged rows are not
\* changed by matching or classification.
C28_MatchingPartitions == [][C28_Step]_vars /\ []C28_State

\* Both sides hold a matched row and an unmatched row.
C28_Witness ==
  /\ pc = "done"
  /\ Len(matches) >= 1
  /\ UnmatchedAIds # {} /\ UnmatchedBIds # {}
  /\ \E i \in AIds : Cardinality(OneSidedOfA(i)) = 1

\* ---------------------------------------------------------------------- C26
\* The discrepancy type each impactBreakdown entry sums (lines 793-797, 836-840).
C26_BreakdownType ==
  [missingInYours |-> "missing_in_a",
   missingInProvider |-> "missing_in_b",
   durationMismatches |-> "duration_mismatch",
   rateMismatches |-> "rate_mismatch",
   costMismatches |-> "cost_mismatch"]

C26_BreakdownTypes == {C26_BreakdownType[e] : e \in DOMAIN C26_BreakdownType}

\* C26: monetaryImpact is the (rounded) sum of cost_difference over all
\* emitted discrepancies, every impactBreakdown entry is the (rounded) sum
\* over its type, every discrepancy with a non-zero cost_difference is of a
\* type the breakdown has an entry for, and the unrounded entries add up to
\* the unrounded monetary impact.
C26_ImpactBreakdownAddsUp ==
  pc \in {"done", "responded"} =>
    /\ summary.monetaryImpact = RoundCents(Impact(discrepancies))
    /\ \A e \in DOMAIN C26_BreakdownType :
         summary.impactBreakdown[e]
           = RoundCents(Impact(OfType(discrepancies, C26_BreakdownType[e])))
    /\ \A k \in DOMAIN discrepancies :
         discrepancies[k].cost_difference # 0
           => discrepancies[k].type \in C26_BreakdownTypes
    /\ Impact(discrepancies)
         = Impact(OfType(discrepancies, "missing_in_a"))
           + Impact(OfType(discrepancies, "missing_in_b"))
           + Impact(OfType(discrepancies, "duration_mismatch"))
           + Impact(OfType(discrepancies, "rate_mismatch"))
           + Impact(OfType(discrepancies, "cost_mismatch"))

\* ---------------------------------------------------------------------- C25
HungDone == hung.pc = "done"

\* The number of unmatched rows in the runs at the positions K.
RECURSIVE C25_Rows(_)
C25_Rows(K) ==
  IF K = {} THEN 0
  ELSE LET k == CHOOSE x \in K : TRUE IN hung.unmatched[k].n + C25_Rows(K \ {k})

\* The number of unmatched rows that share the duration of the run at k.
C25_Shared(k) ==
  C25_Rows({l \in DOMAIN hung.unmatched :
              hung.unmatched[l].billed_duration = hung.unmatched[k].billed_duration})

C25_InGroup(k) == hung.unmatched[k].billed_duration > 30 /\ C25_Shared(k) >= 3

\* C25: hungCalls is the number of unmatched rows whose duration is above 30 s
\* and shared by at least 3 unmatched rows of the side, hungCallGroups the
\* number of distinct such durations; at most 200 exemplars are emitted, of
\* type hung_call_yours / hung_call_provider by side, each a row of such a
\* group carrying the size of its group as hung_call_count.
C25_HungCalls ==
  HungDone =>
    /\ hung.hungCalls = C25_Rows({k \in DOMAIN hung.unmatched : C25_InGroup(k)})
    /\ hung.hungCallGroups =
         Cardinality({hung.unmatched[k].billed_duration :
                        k \in {l \in DOMAIN hung.unmatched : C25_InGroup(l)}})
    /\ RunLength(hung.exemplars) <= 200
    /\ \A e \in DOMAIN hung.exemplars :
         LET x == hung.exemplars[e]
         IN /\ x.type = (IF hung.side = "yours" THEN "hung_call_yours"
                         ELSE "hung_call_provider")
            /\ C25_InGroup(x.at)
            /\ x.n >= 1 /\ x.n <= hung.unmatched[x.at].n
            /\ x.billed_duration = hung.unmatched[x.at].billed_duration
            /\ x.hung_call_count = C25_Shared(x.at)

\* Two groups of more than 200 rows together beside rows of exactly 30 s:
\* 200 exemplars are emitted.
C25_Witness ==
  /\ HungDone
  /\ hung.hungCallGroups = 2
  /\ hung.hungCalls > 200
  /\ RunLength(hung.exemplars) = 200
  /\ \E k \in DOMAIN hung.unmatched :
       hung.unmatched[k].billed_duration = 30 /\ C25_Shared(k) >= 3

\* ---------------------------------------------------------------------- C23
LimiterRuns == limiter.pc = "run"

\* The requests of a key let through in the window that ends at resetTime.
C23_InWindow(key, resetTime) ==
  {i \in DOMAIN limiter.admitted[key] : limiter.admitted[key][i].resetTime = resetTime}

C29_IsRequest ==
  /\ limiter.pc = "run"
  /\ limiter'.now = limiter.now
  /\ \/ limiter'.last # limiter.last
     \/ \E key \in LimiterKeys :
          limiter'.map[key] # None /\ limiter'.map[key] # limiter.map[key]

C29_Step ==
  C29_IsRequest =>
    LET q == limiter'.last[1]
    IN IF Len(q.pathname) >= 2 /\ q.pathname[1] = "api"
       THEN LET header == q.keyed[1]
                key == IF header = None THEN "unknown" ELSE header[1][1]
                old == limiter.map[key]
            IN /\ \A other \in LimiterKeys \ {key} :
                    limiter'.map[other] = limiter.map[other]
               /\ IF old = None \/ limiter.now > old[1].resetTime
                  THEN /\ limiter'.map[key] =
                            Some([count |-> 1, resetTime |-> limiter.now + 60000])
                       /\ q.status = 200
                  ELSE /\ limiter'.map[key] =
                            Some([count |-> old[1].count + 1,
                                  resetTime |-> old[1].resetTime])
                       /\ q.status = (IF old[1].count + 1 <= 10 THEN 200 ELSE 429)
       ELSE /\ limiter'.map = limiter.map
            /\ q.status = 200

\* C29: per key a fixed window: an API request with no entry, or arriving
\* strictly after the stored resetTime, opens a window of 60 000 ms with count
\* 1 and passes; within a window requests 2 to 10 pass and every later one
\* gets 429 and still increments the count; a request to another path passes
\* and changes no counter; requests without x-forwarded-for use the key
\* "unknown".
C29_FixedWindow == [][C29_Step]_vars

\* The twelfth request of the key "unknown" in one window was turned down,
\* and a second window of that key is open.
C29_Witness ==
  /\ LimiterRuns
  /\ limiter.last # None
  /\ limiter.last[1].status = 429
  /\ limiter.last[1].keyed = Some(None)
  /\ limiter.map["unknown"] # None
  /\ limiter.map["unknown"][1].count = 12
  /\ limiter.map[Ip1] # None

\* ---------------------------------------------------------------------- C30
\* C30: the timer removes only entries whose window has expired (now >
\* resetTime), and every request gets the answer it gets from a proxy whose
\* timer never fires.
C30_TimerTransparent ==
  LimiterRuns =>
    /\ \A key \in LimiterKeys :
         \/ limiter.map[key] = limiter.untimed[key]
         \/ /\ limiter.map[key] = None
            /\ limiter.untimed[key] # None
            /\ limiter.now > limiter.untimed[key][1].resetTime
    /\ limiter.last # None => limiter.last[1].status = limiter.last[1].untimedStatus

\* The timer removed an expired entry and the key's next request opened a
\* window in both proxies.
C30_Witness ==
  /\ LimiterRuns
  /\ limiter.map[Ip1] = None /\ limiter.untimed[Ip1] # None
  /\ limiter.map["unknown"] # None
  /\ limiter.map["unknown"] = limiter.untimed["unknown"]
  /\ limiter.map["unknown"][1].resetTime = limiter.now + 60000
  /\ Len(limiter.admitted["unknown"]) > 1

\* ---------------------------------------------------------------------- C21
RequestDone == req.pc = "done"

\* C21: every invocation ends with no scratch artifact (staging database,
\* stored copy of file A or B, entry extracted from an archive): whatever is
\* still on disk when the response is sent is a file whose removal was tried
\* and failed, and the response is the one decided before cleanup ran.
C21_NoScratchLeft ==
  RequestDone =>
    /\ req.artifacts \subseteq req.unlinkFailed
    /\ req.response[1].status = req.outcome

\* What does hold: the staging database and the two stored copies are
\* always removed or their removal tried, on every path.
C21_StoredCopiesRemoved ==
  RequestDone =>
    /\ (req.artifacts \cap {"db", "fileA", "fileB"}) \subseteq req.unlinkFailed
    /\ req.response[1].status = req.outcome

\* ---------------------------------------------------------------------- C22
C22_CanonicalKeys ==
  {"a_number", "b_number", "seize_time", "answer_time", "end_time",
   "billed_duration", "rate", "lrn"}

C22_RequiredKeys == {"a_number", "b_number", "seize_time", "billed_duration", "lrn"}

C22_Complete(r) ==
  r.fileA # None /\ r.fileB # None /\ r.mappingAStr # None /\ r.mappingBStr # None

\* The mapping JSON has a key outside the canonical set or a value whose
\* type is not among valueTypes.
C22_BadMapping(text, valueTypes) ==
  /\ text.parses
  /\ \E key \in DOMAIN text.object :
       key \notin C22_CanonicalKeys \/ text.object[key].type \notin valueTypes

C22_LacksRequired(text) ==
  /\ text.parses
  /\ \E key \in C22_RequiredKeys :
       \/ key \notin DOMAIN text.object
       \/ text.object[key].type # "string"
       \/ text.object[key].s = ""

C22_BadFile(file) ==
  \/ file.name[2] \notin {".csv", ".CSV", ".xlsx", ".xls", ".zip"}
  \/ file.size > 100 * 1024 * 1024

\* A request the checks before parsing must turn down.
C22_Invalid(r, valueTypes) ==
  /\ C22_Complete(r)
  /\ \/ C22_BadMapping(r.mappingAStr[1], valueTypes)
     \/ C22_BadMapping(r.mappingBStr[1], valueTypes)
     \/ C22_LacksRequired(r.mappingAStr[1])
     \/ C22_LacksRequired(r.mappingBStr[1])
     \/ C22_BadFile(r.fileA[1])
     \/ C22_BadFile(r.fileB[1])

C22_TooManyRows(r) ==
  /\ C22_Complete(r)
  /\ r.fileA[1].rows > 2000000 \/ r.fileB[1].rows > 2000000

C22_ClientError == req.response[1].status \in 400..499

C22_ErrorsCarryNoResult ==
  req.response[1].status # 200 =>
    req.response[1].body \cap {"summary", "discrepancies"} = {}

====
